---- MODULE Spec2Model ----
(***************************************************************************)
(* Sliding-window rate limiter (src/src/RateLimiter.ts) over the ordered   *)
(* sets of a shared Redis store (src/src/RedisClient.ts).                  *)
(*                                                                         *)
(* A check is a sequence of store round trips; each round trip is one      *)
(* action, so that the round trips of concurrent checks interleave and     *)
(* time can pass between them.  The store removes a key whose expiry has   *)
(* been reached, and a sorted-set key that has become empty.               *)
(*                                                                         *)
(* The HTTP server (src/unnamed/part_003) resolves the identifier of a     *)
(* request, consults the override map, selects the tier's limiter and      *)
(* renders the outcome of its check; the admin pipeline                    *)
(* (src/unnamed/part_004) validates a request and sets an override flag.   *)
(***************************************************************************)
EXTENDS Integers, Sequences, FiniteSets, TLC

\* ----------------------------------------------------------------- bounds
MaxInFlight == 2      \* check calls that can be in flight together
MaxChecks == 2        \* check calls issued in one behaviour of Spec
MaxSlots == 2         \* clock advances in one behaviour of Spec
MaxChecksSeq == 4     \* check calls issued in one behaviour of SpecSeq
MaxSlotsSeq == 6      \* clock advances in one behaviour of SpecSeq
Grain == 500          \* ms by which the clock advances at a time
StartTime == 100000   \* Date.now() when the first check is issued
MaxRequestsSrv == 2   \* requests received in one behaviour of SpecSrv
MaxSlotsSrv == 2      \* clock advances in one behaviour of SpecSrv
MaxRequestsSeq == 5   \* requests received in one behaviour of SpecSrvSeq
MaxSlotsSrvSeq == 4   \* clock advances in one behaviour of SpecSrvSeq
MaxAdminInFlight == 1 \* admin requests whose body is being read together
MaxRequestsTier == 11 \* requests received in one behaviour of SpecTier
MaxSlotsTier == 15    \* clock advances, in Grain, in one behaviour of SpecTier
MaxChecksRace == 3    \* check calls issued in one behaviour of SpecRace
MaxRequestsOvr == 3   \* requests received in one behaviour of SpecOvr

\* ------------------------------------------------------ program constants
SafetyBufferMs == 1000
MsPerSecond == 1000

\* ----------------------------------------------------------------- inputs
\* identifiers: a source address, which a bearer token may spell as well, and
\* a token of the premium tier
Clients == {"10.0.0.1", "premium-1"}
SeqClients == {"10.0.0.1"}    \* SpecSeq: claims about one client
Configs ==
  { [windowMs |-> 500, maxRequests |-> 2],
    [windowMs |-> 1000, maxRequests |-> 1],
    [windowMs |-> 2000, maxRequests |-> 1] }
Procs == 1 .. MaxInFlight

VARIABLES
  clock,      \* wall clock in ms, read by Date.now() and by the store
  config,     \* the limiter's RedisRateLimiterConfig
  store,      \* key -> set of [score, member]: the sorted set of the key
  ttl,        \* key -> << >> (no expiry) or <<t>> (the key expires at t)
  chk,        \* per in-flight slot: position and locals of its check call,
              \* and the Origin header of the request it was called for
  issued,     \* the clientId of every check issued so far, in order
  hist,       \* clientId -> the resolved checks of that client, in order
              \* (in the server, with the bypasses it was answered too)
  peak,       \* clientId -> the most of its checks in flight together so far
  overrides,  \* rateLimitOverrides: identifier -> << >> (unset) or <<flag>>
  adm,        \* the admin requests whose body is being read
  resp,       \* <<response>> when the step that led here returned a response,
              \* << >> otherwise
  answered,   \* the number of responses the server has returned
  kinds       \* for every check the server issued, in order: whether its
              \* identifier was token-derived ("token") or "address"-derived

vars ==
  <<clock, config, store, ttl, chk, issued, hist, peak,
    overrides, adm, resp, answered, kinds>>

\* the state of the HTTP server around the limiters
srvVars == <<overrides, adm, resp, answered, kinds>>

\* ------------------------------------------------------------ RateLimiter
windowMs == config.windowMs
maxRequests == config.maxRequests

\* one key for every client
getKey_shared(clientId) == "rate-limit:"

getKey(clientId) == "rate-limit:" \o clientId

Keys == { getKey(c) : c \in Clients }

\* `${now}-${Math.random()}`: rnd stands for the value Math.random() returns,
\* taken to differ from call to call.
\* the member without its random part
uniqueMember_noRandom(now, rnd) == <<now, 0>>

uniqueMember(now, rnd) == <<now, rnd>>

\* const windowStart = now - config.windowMs
\* the cutoff a millisecond lower: an entry exactly windowMs old is kept
WindowStart_belowCutoff(cfg, now) == now - cfg.windowMs - 1

WindowStart(cfg, now) == now - cfg.windowMs

\* count >= config.maxRequests
\* the limit compared with the wrong field of the configuration
LimitReached_wrongField(cfg, count) == count >= cfg.windowMs

\* one request too many before the limit applies
LimitReached_gt(cfg, count) == count > cfg.maxRequests

LimitReached(cfg, count) == count >= cfg.maxRequests

Max(a, b) == IF a >= b THEN a ELSE b

\* Math.ceil(x / d) for an integer x and d > 0
\* rounding down instead of up
MathCeil_floor(x, d) == x \div d

MathCeil(x, d) == -((-x) \div d)

\* ----------------------------------------------------------- Redis store
\* decimal digits of a score, as the store's reply carries it
RECURSIVE ScoreString(_)
ScoreString(n) ==
  IF n < 10 THEN <<n>> ELSE Append(ScoreString(n \div 10), n % 10)

\* Number(s) of a reply's decimal string
RECURSIVE NumberOfDigits(_, _)
NumberOfDigits(s, n) ==
  IF n = 0 THEN 0 ELSE 10 * NumberOfDigits(s, n - 1) + s[n]

Number(s) == NumberOfDigits(s, Len(s))

\* ZREMRANGEBYSCORE key min max: both ends inclusive
\* the upper end of the range left out
ZRemRangeByScore_exclusive(set, min, max) ==
  { e \in set : ~(min <= e.score /\ e.score < max) }

ZRemRangeByScore(set, min, max) ==
  { e \in set : ~(min <= e.score /\ e.score <= max) }

ZCard(set) == Cardinality(set)

\* ZRANGE key 0 0 WITHSCORES: the lowest-scored entry as <<member, score>>
ZRangeFirstWithScores(set) ==
  IF set = {} THEN << >>
  ELSE LET e == CHOOSE x \in set : \A y \in set : x.score <= y.score
       IN <<e.member, ScoreString(e.score)>>

\* ZADD key score member: a member is held once, with its latest score
ZAdd(set, score, member) ==
  { e \in set : e.member # member } \cup { [score |-> score, member |-> member] }

\* a sorted-set key that holds nothing does not exist and has no expiry
TtlAfter(set, t) == IF set = {} THEN << >> ELSE t

\* the key's expiry has been reached at time t
Expired(key, t) == ttl[key] # << >> /\ ttl[key][1] <= t

\* ------------------------------------------------------------ check locals
Void == [tag |-> "void", clientId |-> "", retryAfter |-> << >>]
RedisError == [tag |-> "RedisError", clientId |-> "", retryAfter |-> << >>]
RateLimitExceeded(clientId, retryAfter) ==
  [tag |-> "RateLimitExceeded", clientId |-> clientId, retryAfter |-> retryAfter]

\* the configuration a limiter is built with when no check is running
NoConfig == [windowMs |-> 0, maxRequests |-> 0]

Idle ==
  [pc |-> "idle", clientId |-> "", config |-> NoConfig, now |-> 0, count |-> 0,
   rnd |-> 0, calls |-> {}, before |-> {}, alone |-> TRUE, origin |-> << >>]

InFlightPcs == {"zremrangebyscore", "zcard", "zrange", "zadd", "pexpire"}

InFlight(p) == chk[p].pc \in InFlightPcs

InFlightFor(c) == { p \in Procs : InFlight(p) /\ chk[p].clientId = c }

Init ==
  /\ clock = StartTime
  /\ config \in Configs
  /\ store = [k \in Keys |-> {}]
  /\ ttl = [k \in Keys |-> << >>]
  /\ chk = [p \in Procs |-> Idle]
  /\ issued = << >>
  /\ hist = [c \in Clients |-> << >>]
  /\ peak = [c \in Clients |-> 0]
  /\ overrides = [c \in Clients |-> << >>]
  /\ adm = << >>
  /\ resp = << >>
  /\ answered = 0
  /\ kinds = << >>

\* the record of a check that resolves now with the given result
Resolved(l, result) ==
  [now |-> l.now, done |-> clock, tag |-> result.tag,
   clientId |-> result.clientId, retryAfter |-> result.retryAfter,
   alone |-> l.alone]

\* check(clientId) of the limiter built with cfg: now = Date.now(),
\* windowStart, key; the first round trip is issued.  The slots are
\* interchangeable: a check takes the lowest free one.  origin is the Origin
\* header of the request the caller holds.
StartCheckFor(p, c, cfg, maxChecks, origin) ==
  /\ ~InFlight(p)
  /\ \A q \in Procs : q < p => InFlight(q)
  /\ Len(issued) < maxChecks
  /\ chk' = [q \in Procs |->
       IF q = p
       THEN [Idle EXCEPT !.pc = "zremrangebyscore", !.clientId = c,
                         !.config = cfg,
                         !.now = clock, !.rnd = Len(issued) + 1,
                         !.before = store[getKey(c)],
                         !.alone = (InFlightFor(c) = {}),
                         !.origin = origin]
       ELSE IF q \in InFlightFor(c) THEN [chk[q] EXCEPT !.alone = FALSE]
       ELSE chk[q]]
  /\ issued' = Append(issued, c)
  /\ peak' = [peak EXCEPT ![c] = Max(@, Cardinality(InFlightFor(c)) + 1)]
  /\ UNCHANGED <<clock, config, store, ttl, hist>>

\* check(clientId) called on the limiter itself
StartCheck(p, c, cfg, maxChecks) == StartCheckFor(p, c, cfg, maxChecks, << >>)

Start(p, c) == StartCheck(p, c, config, MaxChecks)

\* yield* redisService.zremrangebyscore(key, 0, windowStart)
Zremrangebyscore(p) ==
  /\ chk[p].pc = "zremrangebyscore"
  /\ LET key == getKey(chk[p].clientId)
         left == ZRemRangeByScore(store[key], 0,
                                  WindowStart(chk[p].config, chk[p].now))
     IN /\ store' = [store EXCEPT ![key] = left]
        /\ ttl' = [ttl EXCEPT ![key] = TtlAfter(left, @)]
        /\ chk' = [chk EXCEPT ![p].pc = "zcard",
                              ![p].calls = @ \cup {"zremrangebyscore"}]
  /\ UNCHANGED <<clock, config, issued, hist, peak>>

\* const count = yield* redisService.zcard(key); the branch on it
\* a check that finds the limit reached starts over instead of denying
Zcard_startsOver(p) ==
  /\ chk[p].pc = "zcard"
  /\ LET count == ZCard(store[getKey(chk[p].clientId)])
     IN chk' = [chk EXCEPT ![p].count = count,
                           ![p].calls = @ \cup {"zcard"},
                           ![p].pc = IF LimitReached(chk[p].config, count)
                                     THEN "zremrangebyscore" ELSE "zadd"]
  /\ UNCHANGED <<clock, config, store, ttl, issued, hist, peak>>

Zcard(p) ==
  /\ chk[p].pc = "zcard"
  /\ LET count == ZCard(store[getKey(chk[p].clientId)])
     IN chk' = [chk EXCEPT ![p].count = count,
                           ![p].calls = @ \cup {"zcard"},
                           ![p].pc = IF LimitReached(chk[p].config, count)
                                     THEN "zrange" ELSE "zadd"]
  /\ UNCHANGED <<clock, config, store, ttl, issued, hist, peak>>

\* oldestTimestamp: << >> stands for null
OldestTimestamp(oldestResult) ==
  IF Len(oldestResult) > 1 THEN <<Number(oldestResult[2])>> ELSE << >>

\* retryAfter of the denial: << >> stands for undefined
\* no retryAfter when the window of the oldest entry has elapsed
RetryAfter_omitsElapsed(cfg, oldestResult, now) ==
  LET oldestTimestamp == OldestTimestamp(oldestResult)
  IN IF oldestTimestamp # << >> /\ oldestTimestamp[1] + cfg.windowMs > now
     THEN <<MathCeil(oldestTimestamp[1] + cfg.windowMs - now, MsPerSecond)>>
     ELSE << >>

RetryAfter(cfg, oldestResult, now) ==
  LET oldestTimestamp == OldestTimestamp(oldestResult)
  IN IF oldestTimestamp # << >> /\ oldestTimestamp[1] # 0
     THEN <<Max(0, MathCeil(oldestTimestamp[1] + cfg.windowMs - now,
                            MsPerSecond))>>
     ELSE << >>

\* a denial that records the request all the same
Zrange_appends(p) ==
  /\ chk[p].pc = "zrange"
  /\ \E oldestResult \in
          { ZRangeFirstWithScores(store[getKey(chk[p].clientId)]) } :
     \E retryAfter \in
          { RetryAfter(chk[p].config, oldestResult, chk[p].now) } :
       LET c == chk[p].clientId
           result == RateLimitExceeded(c, retryAfter)
       IN /\ chk' = [chk EXCEPT ![p] = Idle]
          /\ hist' = [hist EXCEPT ![c] =
               Append(@, Resolved(chk[p], result))]
          /\ store' = [store EXCEPT ![getKey(c)] =
               ZAdd(@, chk[p].now, uniqueMember(chk[p].now, chk[p].rnd))]
  /\ UNCHANGED <<clock, config, ttl, issued, peak>>

\* const oldestResult = yield* redisService.zrange(key, 0, 0, "WITHSCORES");
\* Effect.fail(new RateLimitExceeded({ clientId, retryAfter }))
Zrange(p) ==
  /\ chk[p].pc = "zrange"
  /\ \E oldestResult \in
          { ZRangeFirstWithScores(store[getKey(chk[p].clientId)]) } :
     \E retryAfter \in
          { RetryAfter(chk[p].config, oldestResult, chk[p].now) } :
       LET c == chk[p].clientId
           result == RateLimitExceeded(c, retryAfter)
       IN /\ chk' = [chk EXCEPT ![p] = Idle]
          /\ hist' = [hist EXCEPT ![c] =
               Append(@, Resolved(chk[p], result))]
  /\ UNCHANGED <<clock, config, store, ttl, issued, peak>>

\* yield* redisService.zadd(key, now, uniqueMember)
Zadd(p) ==
  /\ chk[p].pc = "zadd"
  /\ LET key == getKey(chk[p].clientId)
     IN /\ store' = [store EXCEPT ![key] =
             ZAdd(@, chk[p].now, uniqueMember(chk[p].now, chk[p].rnd))]
        /\ chk' = [chk EXCEPT ![p].pc = "pexpire",
                              ![p].calls = @ \cup {"zadd"}]
  /\ UNCHANGED <<clock, config, ttl, issued, hist, peak>>

\* const setExpiry = yield* redisService.pexpire(key, config.windowMs + 1000);
\* the check succeeds.  PEXPIRE of a key that does not exist sets nothing and
\* replies 0.
Pexpire(p) ==
  /\ chk[p].pc = "pexpire"
  /\ LET c == chk[p].clientId
         key == getKey(c)
     IN /\ ttl' = [ttl EXCEPT ![key] =
             TtlAfter(store[key],
                      <<clock + chk[p].config.windowMs + SafetyBufferMs>>)]
        /\ chk' = [chk EXCEPT ![p] = Idle]
        /\ hist' = [hist EXCEPT ![c] =
             Append(@, Resolved(chk[p], Void))]
  /\ UNCHANGED <<clock, config, store, issued, peak>>

\* Effect.tryPromise catch: the pending store call rejects, the check fails
\* with RedisError and issues no further call
\* the error of a call swallowed: the check goes on as if the call had
\* returned, without its effect on the store
RedisFails_goesOn(p) ==
  /\ InFlight(p)
  /\ LET c == chk[p].clientId
         next == CASE chk[p].pc = "zremrangebyscore" -> "zcard"
                   [] chk[p].pc = "zcard" -> "zadd"
                   [] chk[p].pc = "zadd" -> "pexpire"
                   [] OTHER -> "idle"
     IN IF next = "idle"
        THEN /\ chk' = [chk EXCEPT ![p] = Idle]
             /\ hist' = [hist EXCEPT ![c] = Append(@, Resolved(chk[p], Void))]
        ELSE /\ chk' = [chk EXCEPT ![p].pc = next]
             /\ UNCHANGED hist
  /\ UNCHANGED <<clock, config, store, ttl, issued, peak>>

\* the failure of the expiry refresh undone: the entry of the check removed
RedisFails_rollsBack(p) ==
  /\ InFlight(p)
  /\ LET c == chk[p].clientId
         left == { e \in store[getKey(c)] :
                     e.member # uniqueMember(chk[p].now, chk[p].rnd) }
     IN /\ chk' = [chk EXCEPT ![p] = Idle]
        /\ hist' = [hist EXCEPT ![c] =
             Append(@, Resolved(chk[p], RedisError))]
        /\ store' = [store EXCEPT ![getKey(c)] = left]
        /\ ttl' = [ttl EXCEPT ![getKey(c)] = TtlAfter(left, @)]
  /\ UNCHANGED <<clock, config, issued, peak>>

RedisFails(p) ==
  /\ InFlight(p)
  /\ LET c == chk[p].clientId
     IN /\ chk' = [chk EXCEPT ![p] = Idle]
        /\ hist' = [hist EXCEPT ![c] =
             Append(@, Resolved(chk[p], RedisError))]
  /\ UNCHANGED <<clock, config, store, ttl, issued, peak>>

\* time passes; the store drops every key whose expiry has been reached
Advance(d, maxSlots) ==
  /\ clock + d <= StartTime + maxSlots * Grain
  /\ clock' = clock + d
  /\ store' = [k \in Keys |-> IF Expired(k, clock + d) THEN {} ELSE store[k]]
  /\ ttl' = [k \in Keys |-> IF Expired(k, clock + d) THEN << >> ELSE ttl[k]]
  /\ UNCHANGED <<config, chk, issued, hist, peak>>

Tick == Advance(Grain, MaxSlots)

\* a store call of the check in slot p returns
Returns(p) ==
  \/ Zremrangebyscore(p)
  \/ Zcard(p)
  \/ Zrange(p)
  \/ Zadd(p)
  \/ Pexpire(p)

\* the limiter on its own: the server around it stands still
Next ==
  \/ \E p \in Procs, c \in Clients : Start(p, c) /\ UNCHANGED srvVars
  \/ \E p \in Procs : Returns(p) /\ UNCHANGED srvVars
  \/ \E p \in Procs : RedisFails(p) /\ UNCHANGED srvVars
  \/ Tick /\ UNCHANGED srvVars

Spec == Init /\ [][Next]_vars

\* the limiter of one configuration under concurrent callers with one
\* identifier, every pending store call returning a result or an error in
\* the end
InitOne == Init /\ config = [windowMs |-> 1000, maxRequests |-> 1]

\* time passes a window at a time
TickOne == Advance(windowMs, MaxSlots)

NextOne ==
  \/ \E p \in Procs, c \in SeqClients : Start(p, c) /\ UNCHANGED srvVars
  \/ \E p \in Procs : Returns(p) /\ UNCHANGED srvVars
  \/ \E p \in Procs : RedisFails(p) /\ UNCHANGED srvVars
  \/ TickOne /\ UNCHANGED srvVars

SpecFair ==
  /\ InitOne
  /\ [][NextOne]_vars
  /\ \A p \in Procs :
       WF_vars((Returns(p) \/ RedisFails(p)) /\ UNCHANGED srvVars)

\* the limiter of one configuration under overlapping checks of one
\* identifier, every store call returning a result
StartRace(p, c) == StartCheck(p, c, config, MaxChecksRace)

NextRace ==
  \/ \E p \in Procs, c \in SeqClients : StartRace(p, c) /\ UNCHANGED srvVars
  \/ \E p \in Procs : Returns(p) /\ UNCHANGED srvVars
  \/ TickOne /\ UNCHANGED srvVars

SpecRace == InitOne /\ [][NextRace]_vars

\* the checks of one client are issued one after another, and every store
\* call returns
StartSeq(p, c) ==
  InFlightFor(c) = {} /\ StartCheck(p, c, config, MaxChecksSeq)

TickSeq == Advance(Grain, MaxSlotsSeq)

NextSeq ==
  \/ \E p \in Procs, c \in SeqClients : StartSeq(p, c) /\ UNCHANGED srvVars
  \/ \E p \in Procs : Returns(p) /\ UNCHANGED srvVars
  \/ TickSeq /\ UNCHANGED srvVars

SpecSeq == Init /\ [][NextSeq]_vars

\* every check runs to its end at one time and alone: no check is started
\* and no time passes while a check is in flight, and every store call
\* returns
Quiet == \A p \in Procs : ~InFlight(p)

StartAtomic(p, c) == Quiet /\ StartCheck(p, c, config, MaxChecksSeq)

TickAtomic == Quiet /\ Advance(Grain, MaxSlotsSeq)

NextAtomic ==
  \/ \E p \in Procs, c \in Clients : StartAtomic(p, c) /\ UNCHANGED srvVars
  \/ \E p \in Procs : Returns(p) /\ UNCHANGED srvVars
  \/ TickAtomic /\ UNCHANGED srvVars

SpecAtomic == Init /\ [][NextAtomic]_vars

\* -------------------------------------------------- makeInMemoryRateLimiter
\* the exit of Effect.sync: the thunk returned, or it threw and the thrown
\* value is a defect
Success == [kind |-> "Success", defect |-> << >>]
Die(defect) == [kind |-> "Die", defect |-> <<defect>>]

\* requests.filter((timestamp) => timestamp > windowStart)
Recent(requests, windowStart) ==
  SelectSeq(requests, LAMBDA timestamp : timestamp > windowStart)

\* retryAfter of the in-memory denial: << >> stands for undefined
InMemoryRetryAfter(cfg, recentRequests, now) ==
  IF recentRequests # << >> /\ recentRequests[1] # 0
  THEN <<MathCeil(recentRequests[1] + cfg.windowMs - now, MsPerSecond)>>
  ELSE << >>

\* check(clientId) of the in-memory limiter at time now, requests being
\* clientRequests.get(clientId) ?? []: the list it sets and its exit
\* a timestamp exactly windowMs old kept
InMemoryCheck_keepsBoundary(cfg, requests, clientId, now) ==
  LET recentRequests ==
        SelectSeq(requests, LAMBDA timestamp : timestamp >= now - cfg.windowMs)
  IN IF Len(recentRequests) >= cfg.maxRequests
     THEN [requests |-> recentRequests,
           exit |-> Die(RateLimitExceeded(clientId,
                      InMemoryRetryAfter(cfg, recentRequests, now)))]
     ELSE [requests |-> Append(recentRequests, now), exit |-> Success]

InMemoryCheck(cfg, requests, clientId, now) ==
  LET recentRequests == Recent(requests, now - cfg.windowMs)
  IN IF Len(recentRequests) >= cfg.maxRequests
     THEN [requests |-> recentRequests,
           exit |-> Die(RateLimitExceeded(clientId,
                      InMemoryRetryAfter(cfg, recentRequests, now)))]
     ELSE [requests |-> Append(recentRequests, now), exit |-> Success]

\* the in-memory limiter after the first n calls for clientId, made at the
\* times of the sequence nows: the list and the exit of the n-th call
RECURSIVE InMemoryAfter(_, _, _, _)
InMemoryAfter(cfg, clientId, nows, n) ==
  IF n = 0
  THEN [requests |-> << >>, exit |-> Success]
  ELSE InMemoryCheck(cfg, InMemoryAfter(cfg, clientId, nows, n - 1).requests,
                     clientId, nows[n])

\* ------------------------------------------------------------- server.ts
\* rateLimitConfigs, the tiers' limits scaled down from (5000, 5) and
\* (5000, 10) so that a tier's limit is reached within the bounds
rateLimitConfigs ==
  [free |-> [windowMs |-> 1000, maxRequests |-> 1],
   premium |-> [windowMs |-> 1000, maxRequests |-> 2]]

\* createRateLimitersEffect: one limiter per role, built with the role's config
rateLimiters == rateLimitConfigs

\* rateLimitConfigs with the limits of the source, and the limiters built
\* from them
sourceRateLimitConfigs ==
  [free |-> [windowMs |-> 5000, maxRequests |-> 5],
   premium |-> [windowMs |-> 5000, maxRequests |-> 10]]

sourceRateLimiters == sourceRateLimitConfigs

AdminPath == "/admin/override-rate-limit"

\* s.startsWith(prefix)
StartsWith(s, prefix) ==
  Len(s) >= Len(prefix) /\ SubSeq(s, 1, Len(prefix)) = prefix

\* s.includes(part)
Includes(s, part) ==
  \E i \in 1 .. Len(s) - Len(part) + 1 : SubSeq(s, i, i + Len(part) - 1) = part

\* s.substring(n)
Substring(s, n) == SubSeq(s, n + 1, Len(s))

\* every identifier in the free tier
getUserRole_allFree(identifier) == "free"

getUserRole(identifier) ==
  IF StartsWith(identifier, "premium-") THEN "premium" ELSE "free"

\* a header or an address that is absent is << >>, one that is present <<value>>
Authorizations ==
  { << >>, <<"Bearer 10.0.0.1">>, <<"Bearer premium-1">>, <<"Basic premium-1">> }

Addresses == { << >>, <<"10.0.0.1">> }

ContentTypes ==
  { << >>, <<"text/plain">>, <<"application/json; charset=utf-8">> }

\* the JSON text of a body: what JSON.parse makes of it, if it parses; an
\* object is its set of <<field, typeof value, value>>
NoBody == [parses |-> FALSE, kind |-> "none", fields |-> {}]

JsonObject(fields) == [parses |-> TRUE, kind |-> "object", fields |-> fields]

OverrideBody(clientId, override) ==
  JsonObject({ <<"clientId", "string", clientId>>,
               <<"override", "boolean", override>> })

Bodies ==
  { NoBody,
    [parses |-> TRUE, kind |-> "null", fields |-> {}],
    JsonObject({ <<"clientId", "string", "premium-1">> }),
    JsonObject({ <<"clientId", "string", "premium-1">>,
                 <<"override", "string", "true">> }) }
  \cup { OverrideBody(c, b) : c \in Clients, b \in {"true", "false"} }

Request(method, path, authorization, ip, contentType, body) ==
  [method |-> method, path |-> path, authorization |-> authorization,
   ip |-> ip, contentType |-> contentType, body |-> body, origin |-> << >>]

\* the request sent with an Origin header
WithOrigin(request, origin) == [request EXCEPT !.origin = <<origin>>]

FrontendOrigin == "http://localhost:8080"

\* the Origin header a request is sent with: the frontend sends the premium
\* token, a request without token and address comes from another origin
OriginOf(authorization, ip) ==
  IF authorization = <<"Bearer premium-1">> THEN <<FrontendOrigin>>
  ELSE IF authorization = << >> /\ ip = << >> THEN <<"http://localhost:3000">>
  ELSE << >>

\* the requests the server receives: every header and address on GET /, a
\* preflight without a token and one with a token for the admin path, the
\* admin path by another method
PlainRequests ==
  { [Request("GET", "/", a, ip, << >>, NoBody)
       EXCEPT !.origin = OriginOf(a, ip)] :
      a \in Authorizations, ip \in Addresses }
  \cup { Request("OPTIONS", "/", << >>, <<"10.0.0.1">>, << >>, NoBody),
         WithOrigin(Request("OPTIONS", AdminPath, <<"Bearer premium-1">>,
                            << >>, << >>, NoBody), FrontendOrigin),
         WithOrigin(Request("GET", AdminPath, <<"Bearer premium-1">>,
                            <<"10.0.0.1">>, << >>, NoBody), FrontendOrigin) }

\* every body under a JSON content type, and from the frontend any other
\* content type with a body that does not parse, one that parses to null and
\* one that is valid
AdminRequests ==
  { Request("POST", AdminPath, << >>, <<"10.0.0.1">>, ct, b) :
      ct \in { <<"application/json; charset=utf-8">> }, b \in Bodies }
  \cup { WithOrigin(Request("POST", AdminPath, << >>, <<"10.0.0.1">>, ct, b),
                    FrontendOrigin) :
           ct \in ContentTypes \ { <<"application/json; charset=utf-8">> },
           b \in { NoBody, [parses |-> TRUE, kind |-> "null", fields |-> {}],
                   OverrideBody("premium-1", "true") } }

Response(status, body, headers) ==
  [status |-> status, body |-> body, headers |-> headers]

\* addCorsHeaders(response, request): headers.set of the four CORS headers,
\* origin being request?.headers.get("Origin") as << >> or <<value>>
CorsHeaderNames ==
  { "Access-Control-Allow-Origin", "Access-Control-Allow-Methods",
    "Access-Control-Allow-Headers", "Access-Control-Expose-Headers" }

\* the headers of an error response left as they are
addCorsHeaders_successOnly(response, origin) ==
  IF response.status >= 400
  THEN response
  ELSE [response EXCEPT !.headers =
          { h \in @ : h[1] \notin CorsHeaderNames }
          \cup { <<"Access-Control-Allow-Origin",
                   IF origin = <<FrontendOrigin>> THEN origin[1] ELSE "*">>,
                 <<"Access-Control-Allow-Methods", "GET, POST, OPTIONS">>,
                 <<"Access-Control-Allow-Headers", "Content-Type, Authorization">>,
                 <<"Access-Control-Expose-Headers",
                   "Retry-After, X-Rate-Limit-Exceeded">> }]

addCorsHeaders(response, origin) ==
  [response EXCEPT !.headers =
     { h \in @ : h[1] \notin CorsHeaderNames }
     \cup { <<"Access-Control-Allow-Origin",
              IF origin = <<FrontendOrigin>> THEN origin[1] ELSE "*">>,
            <<"Access-Control-Allow-Methods", "GET, POST, OPTIONS">>,
            <<"Access-Control-Allow-Headers", "Content-Type, Authorization">>,
            <<"Access-Control-Expose-Headers",
              "Retry-After, X-Rate-Limit-Exceeded">> }]

\* requests received and not yet answered
Pending == Cardinality({ p \in Procs : InFlight(p) }) + Len(adm)

\* requests received so far
Received == answered + Pending

Respond(r) == resp' = <<r>> /\ answered' = answered + 1

NoResponse == resp' = << >> /\ UNCHANGED answered

\* the entry of an identifier's history for a request answered without a check
Bypassed ==
  [now |-> clock, done |-> clock, tag |-> "bypass", clientId |-> "",
   retryAfter |-> << >>, alone |-> TRUE]

\* rateLimitOverrides.get(identifier), as a condition
OverrideActive(identifier) == overrides[identifier] = <<TRUE>>

\* authHeader && authHeader.startsWith("Bearer ")
IsClientId(request) ==
  /\ request.authorization # << >>
  /\ request.authorization[1] # ""
  /\ StartsWith(request.authorization[1], "Bearer ")

\* identifier: the rest of the header, else bunServer.requestIP(request)?.address
\* the source address preferred to the token
Identifier_addressFirst(request) ==
  IF request.ip # << >>
  THEN request.ip
  ELSE IF IsClientId(request)
  THEN <<Substring(request.authorization[1], 7)>>
  ELSE << >>

Identifier(request) ==
  IF IsClientId(request)
  THEN <<Substring(request.authorization[1], 7)>>
  ELSE request.ip

PreflightResponse == Response(204, "", {})

BadRequestResponse == Response(400, "Bad Request: Missing identifier", {})

BypassResponse ==
  Response(200, "Success (Override Active)",
           { <<"X-Rate-Limit-Remaining", "Overridden">> })

\* isClientId && rateLimitOverrides.get(identifier!)
\* the override map consulted whatever the class of the identifier
Overridden_anyIdentifier(request) == OverrideActive(Identifier(request)[1])

Overridden(request) ==
  IsClientId(request) /\ OverrideActive(Identifier(request)[1])

\* the override branch: the request is answered at once, no check is called
\* a bypass that records the request in the identifier's window
Bypass_consumes(identifier, origin) ==
  /\ Respond(addCorsHeaders(BypassResponse, origin))
  /\ hist' = [hist EXCEPT ![identifier] = Append(@, Bypassed)]
  /\ store' = [store EXCEPT ![getKey(identifier)] =
       ZAdd(@, clock, uniqueMember(clock, 0))]
  /\ UNCHANGED <<clock, config, ttl, chk, issued, peak, kinds>>

Bypass(identifier, origin) ==
  /\ Respond(addCorsHeaders(BypassResponse, origin))
  /\ hist' = [hist EXCEPT ![identifier] = Append(@, Bypassed)]
  /\ UNCHANGED <<clock, config, store, ttl, chk, issued, peak, kinds>>

\* request.method === "OPTIONS"
\* a preflight recognised only when it bears no Authorization header
IsPreflight_withoutToken(request) ==
  request.method = "OPTIONS" /\ request.authorization = << >>

IsPreflight(request) == request.method = "OPTIONS"

\* handleRequest up to its first store round trip, the limiters being those
\* handed to it
\* the limiter chosen by the class of the identifier: premium for a token,
\* free for an address
HandleRequestWith_tierByClass(request, maxRequestsSrv, limiters) ==
  /\ Received < maxRequestsSrv
  /\ IF IsPreflight(request)
     THEN Respond(addCorsHeaders(PreflightResponse, request.origin))
          /\ UNCHANGED <<clock, config, store, ttl, chk, issued, hist, peak,
                         kinds>>
     ELSE IF Identifier(request) = << >>
     THEN Respond(addCorsHeaders(BadRequestResponse, request.origin))
          /\ UNCHANGED <<clock, config, store, ttl, chk, issued, hist, peak,
                         kinds>>
     ELSE LET identifier == Identifier(request)[1]
          IN IF Overridden(request)
             THEN Bypass(identifier, request.origin)
             ELSE /\ \E p \in Procs :
                       StartCheckFor(p, identifier,
                                     IF IsClientId(request)
                                     THEN limiters.premium ELSE limiters.free,
                                     maxRequestsSrv, request.origin)
                  /\ kinds' = Append(kinds, IF IsClientId(request)
                                            THEN "token" ELSE "address")
                  /\ NoResponse
  /\ UNCHANGED <<overrides, adm>>

HandleRequestWith(request, maxRequestsSrv, limiters) ==
  /\ Received < maxRequestsSrv
  /\ IF IsPreflight(request)
     THEN Respond(addCorsHeaders(PreflightResponse, request.origin))
          /\ UNCHANGED <<clock, config, store, ttl, chk, issued, hist, peak,
                         kinds>>
     ELSE IF Identifier(request) = << >>
     THEN Respond(addCorsHeaders(BadRequestResponse, request.origin))
          /\ UNCHANGED <<clock, config, store, ttl, chk, issued, hist, peak,
                         kinds>>
     ELSE LET identifier == Identifier(request)[1]
          IN IF Overridden(request)
             THEN Bypass(identifier, request.origin)
             ELSE /\ \E p \in Procs :
                       StartCheckFor(p, identifier,
                                     limiters[getUserRole(identifier)],
                                     maxRequestsSrv, request.origin)
                  /\ kinds' = Append(kinds, IF IsClientId(request)
                                            THEN "token" ELSE "address")
                  /\ NoResponse
  /\ UNCHANGED <<overrides, adm>>

HandleRequest(request, maxRequestsSrv) ==
  HandleRequestWith(request, maxRequestsSrv, rateLimiters)

\* error.retryAfter as a condition: undefined and 0 are falsy
Truthy(retryAfter) == retryAfter # << >> /\ retryAfter[1] # 0

\* the check dies or is interrupted: a cause that is not a failure
Defect == [tag |-> "Die", clientId |-> "", retryAfter |-> << >>]

\* Effect.matchCause(checkEffect, { onSuccess, onFailure })
\* failing open: a store error rendered as a success
Render_failOpen(identifier, outcome) ==
  CASE outcome.tag \in {"void", "RedisError"} ->
         Response(200, "Success (Role: " \o getUserRole(identifier) \o ")",
                  { <<"X-Rate-Limit-Remaining", "Available">> })
    [] outcome.tag = "RateLimitExceeded" ->
         Response(429, "Too Many Requests",
                  { <<"X-Rate-Limit-Exceeded", "true">> }
                  \cup IF Truthy(outcome.retryAfter)
                       THEN { <<"Retry-After", ToString(outcome.retryAfter[1])>> }
                       ELSE {})
    [] OTHER -> Response(500, "Internal Server Error", {})

Render(identifier, outcome) ==
  CASE outcome.tag = "void" ->
         Response(200, "Success (Role: " \o getUserRole(identifier) \o ")",
                  { <<"X-Rate-Limit-Remaining", "Available">> })
    [] outcome.tag = "RateLimitExceeded" ->
         Response(429, "Too Many Requests",
                  { <<"X-Rate-Limit-Exceeded", "true">> }
                  \cup IF Truthy(outcome.retryAfter)
                       THEN { <<"Retry-After", ToString(outcome.retryAfter[1])>> }
                       ELSE {})
    [] outcome.tag = "RedisError" ->
         Response(500, "Internal Server Error - Rate Limit Check Failed", {})
    [] OTHER -> Response(500, "Internal Server Error", {})

\* the check in slot p dies or is interrupted before its first call returns
Dies(p) ==
  /\ chk[p].pc = "zremrangebyscore"
  /\ LET c == chk[p].clientId
     IN /\ chk' = [chk EXCEPT ![p] = Idle]
        /\ hist' = [hist EXCEPT ![c] = Append(@, Resolved(chk[p], Defect))]
  /\ UNCHANGED <<clock, config, store, ttl, issued, peak>>

\* the check of the request in slot p takes the step `step`; when the check
\* resolves, matchCause renders its outcome into the response
\* a cause that is no failure escapes: no response is returned
Handled_silentOnDefect(p, step) ==
  /\ step
  /\ IF chk'[p].pc = "idle"
        /\ hist'[chk[p].clientId][Len(hist'[chk[p].clientId])].tag # "Die"
     THEN LET c == chk[p].clientId
          IN Respond(addCorsHeaders(Render(c, hist'[c][Len(hist'[c])]),
                                    chk[p].origin))
     ELSE NoResponse
  /\ UNCHANGED <<overrides, adm, kinds>>

\* the override read again when the check has resolved
Handled_rereadsOverride(p, step) ==
  /\ step
  /\ IF chk'[p].pc = "idle"
     THEN LET c == chk[p].clientId
          IN IF OverrideActive(c)
             THEN Respond(addCorsHeaders(BypassResponse, chk[p].origin))
             ELSE Respond(addCorsHeaders(Render(c, hist'[c][Len(hist'[c])]),
                                         chk[p].origin))
     ELSE NoResponse
  /\ UNCHANGED <<overrides, adm, kinds>>

Handled(p, step) ==
  /\ step
  /\ IF chk'[p].pc = "idle"
     THEN LET c == chk[p].clientId
          IN Respond(addCorsHeaders(Render(c, hist'[c][Len(hist'[c])]),
                                    chk[p].origin))
     ELSE NoResponse
  /\ UNCHANGED <<overrides, adm, kinds>>

\* ------------------------------------------------------------ adminHandler
JsonError(text) == "{\"error\":\"" \o text \o "\"}"

JsonHeaders == { <<"Content-Type", "application/json">> }

\* request.headers.get("content-type") ?? ""
ContentType(request) ==
  IF request.contentType = << >> THEN "" ELSE request.contentType[1]

\* checkContentType
ContentTypeOk(request) == Includes(ContentType(request), "application/json")

InvalidContentTypeResponse(providedType) ==
  Response(415,
           JsonError("Content-Type must be application/json. Provided: "
                     \o providedType),
           JsonHeaders)

JsonParseResponse == Response(400, JsonError("Failed to parse JSON body"), JsonHeaders)

InvalidRequestBodyResponse ==
  Response(400, JsonError("Invalid request body format"), JsonHeaders)

\* validateAdminBodyManual: isValidBody
\* the type of override left unchecked
isValidBody_lax(b) ==
  /\ b.kind = "object"
  /\ \E f \in b.fields : f[1] = "clientId" /\ f[2] = "string"
  /\ \E f \in b.fields : f[1] = "override"

isValidBody(b) ==
  /\ b.kind = "object"
  /\ \E f \in b.fields : f[1] = "clientId" /\ f[2] = "string"
  /\ \E f \in b.fields : f[1] = "override" /\ f[2] = "boolean"

Field(b, name) == (CHOOSE f \in b.fields : f[1] = name)[3]

\* createSuccessResponse
createSuccessResponse(body) ==
  Response(200,
           "{\"message\":\"Override for " \o Field(body, "clientId")
             \o " set to " \o Field(body, "override") \o ".\"}",
           JsonHeaders)

\* updateOverrides: overrides.set(body.clientId, body.override)
\* the map replaced by one that holds the new flag only
updateOverrides_replacesMap(body) ==
  overrides' = [c \in Clients |->
                  IF c = Field(body, "clientId")
                  THEN <<Field(body, "override") = "true">> ELSE << >>]

updateOverrides(body) ==
  overrides' = [overrides EXCEPT ![Field(body, "clientId")] =
                  <<Field(body, "override") = "true">>]

\* handleAdminOverrideRequest up to the read of the body: checkContentType
AdminReceive(request, maxRequestsSrv) ==
  /\ Received < maxRequestsSrv
  /\ Len(adm) < MaxAdminInFlight
  /\ IF ContentTypeOk(request)
     THEN adm' = Append(adm, request) /\ NoResponse
     ELSE Respond(addCorsHeaders(
                    InvalidContentTypeResponse(ContentType(request)),
                    request.origin))
          /\ UNCHANGED adm
  /\ UNCHANGED <<clock, config, store, ttl, chk, issued, hist, peak,
                 overrides, kinds>>

\* request.json() settles: parseJsonBody, validateAdminBodyManual,
\* updateOverrides, createSuccessResponse
\* the flag written before the body is validated
AdminJson_updatesFirst(i) ==
  /\ i \in DOMAIN adm
  /\ LET body == adm[i].body
         origin == adm[i].origin
         named == /\ \E f \in body.fields : f[1] = "clientId"
                  /\ \E f \in body.fields : f[1] = "override"
     IN IF ~body.parses
        THEN /\ Respond(addCorsHeaders(JsonParseResponse, origin))
             /\ UNCHANGED overrides
        ELSE IF ~isValidBody(body)
        THEN /\ Respond(addCorsHeaders(InvalidRequestBodyResponse, origin))
             /\ IF named THEN updateOverrides(body) ELSE UNCHANGED overrides
        ELSE /\ updateOverrides(body)
             /\ Respond(addCorsHeaders(createSuccessResponse(body), origin))
  /\ adm' = SubSeq(adm, 1, i - 1) \o SubSeq(adm, i + 1, Len(adm))
  /\ UNCHANGED <<clock, config, store, ttl, chk, issued, hist, peak, kinds>>

\* the schema looked at before the outcome of the parse
AdminJson_schemaFirst(i) ==
  /\ i \in DOMAIN adm
  /\ LET body == adm[i].body
         origin == adm[i].origin
     IN IF ~isValidBody(body)
        THEN /\ Respond(addCorsHeaders(InvalidRequestBodyResponse, origin))
             /\ UNCHANGED overrides
        ELSE IF ~body.parses
        THEN /\ Respond(addCorsHeaders(JsonParseResponse, origin))
             /\ UNCHANGED overrides
        ELSE /\ updateOverrides(body)
             /\ Respond(addCorsHeaders(createSuccessResponse(body), origin))
  /\ adm' = SubSeq(adm, 1, i - 1) \o SubSeq(adm, i + 1, Len(adm))
  /\ UNCHANGED <<clock, config, store, ttl, chk, issued, hist, peak, kinds>>

AdminJson(i) ==
  /\ i \in DOMAIN adm
  /\ LET body == adm[i].body
         origin == adm[i].origin
     IN IF ~body.parses
        THEN /\ Respond(addCorsHeaders(JsonParseResponse, origin))
             /\ UNCHANGED overrides
        ELSE IF ~isValidBody(body)
        THEN /\ Respond(addCorsHeaders(InvalidRequestBodyResponse, origin))
             /\ UNCHANGED overrides
        ELSE /\ updateOverrides(body)
             /\ Respond(addCorsHeaders(createSuccessResponse(body), origin))
  /\ adm' = SubSeq(adm, 1, i - 1) \o SubSeq(adm, i + 1, Len(adm))
  /\ UNCHANGED <<clock, config, store, ttl, chk, issued, hist, peak, kinds>>

\* serve.fetch: the admin route, else the dispatcher
Fetch(request, maxRequestsSrv) ==
  IF request.path = AdminPath /\ request.method = "POST"
  THEN AdminReceive(request, maxRequestsSrv)
  ELSE HandleRequest(request, maxRequestsSrv)

Requests == PlainRequests \cup AdminRequests

\* under concurrent requests time passes a window of the free tier at a time
TickSrv ==
  Advance(rateLimitConfigs.free.windowMs, MaxSlotsSrv) /\ NoResponse /\ UNCHANGED <<overrides, adm, kinds>>

InitSrv == Init /\ config = rateLimitConfigs.free

NextSrv ==
  \/ \E request \in Requests : Fetch(request, MaxRequestsSrv)
  \/ \E i \in 1 .. MaxAdminInFlight : AdminJson(i)
  \/ \E p \in Procs : Handled(p, Returns(p))
  \/ \E p \in Procs : Handled(p, RedisFails(p))
  \/ \E p \in Procs : Handled(p, Dies(p))
  \/ TickSrv

SpecSrv == InitSrv /\ [][NextSrv]_vars

\* the server receives a request after it has answered the one before; store
\* calls may fail, and every pending store call returns or fails in the end
FetchOne(request) == Pending = 0 /\ Fetch(request, MaxRequestsSrv)

NextSrvOne ==
  \/ \E request \in Requests : FetchOne(request)
  \/ \E i \in 1 .. MaxAdminInFlight : AdminJson(i)
  \/ \E p \in Procs : Handled(p, Returns(p))
  \/ \E p \in Procs : Handled(p, RedisFails(p))
  \/ \E p \in Procs : Handled(p, Dies(p))
  \/ TickSrv

SpecSrvFair ==
  /\ InitSrv
  /\ [][NextSrvOne]_vars
  /\ \A p \in Procs :
       WF_vars(\/ Handled(p, Returns(p))
               \/ Handled(p, RedisFails(p))
               \/ Handled(p, Dies(p)))

\* the server receives a request after it has answered the one before, and
\* every store call returns
FetchSeq(request) == Pending = 0 /\ Fetch(request, MaxRequestsSeq)

\* the requests of one token and the admin requests that set its override
SeqRequests ==
  { r \in PlainRequests :
      /\ r.method = "GET" /\ r.path = "/" /\ r.ip = << >>
      /\ IsClientId(r) /\ Identifier(r)[1] \in SeqClients }
  \cup { r \in AdminRequests :
           /\ ContentTypeOk(r) /\ r.body.parses /\ isValidBody(r.body)
           /\ Field(r.body, "clientId") \in SeqClients }

TickSrvSeq ==
  /\ Advance(Grain, MaxSlotsSrvSeq)
  /\ NoResponse
  /\ UNCHANGED <<overrides, adm, kinds>>

NextSrvSeq ==
  \/ \E request \in SeqRequests : FetchSeq(request)
  \/ \E i \in 1 .. MaxAdminInFlight : AdminJson(i)
  \/ \E p \in Procs : Handled(p, Returns(p))
  \/ TickSrvSeq

SpecSrvSeq == InitSrv /\ [][NextSrvSeq]_vars

\* the limits of the source: one request, by token or from an address, is
\* repeated, each after the one before was answered, and every store call
\* returns
TierRequests ==
  { r \in PlainRequests :
      /\ r.method = "GET" /\ r.path = "/"
      /\ (r.authorization = << >>) # (r.ip = << >>)
      /\ r.authorization # << >> => IsClientId(r) }

FetchTier(request) ==
  /\ Pending = 0
  /\ issued # << >> =>
       /\ Identifier(request) = <<issued[1]>>
       /\ IsClientId(request) = (kinds[1] = "token")
  /\ HandleRequestWith(request, MaxRequestsTier, sourceRateLimiters)

\* time passes half a window at a time
TickTier ==
  /\ Advance(sourceRateLimitConfigs.free.windowMs \div 2, MaxSlotsTier)
  /\ NoResponse
  /\ UNCHANGED <<overrides, adm, kinds>>

NextTier ==
  \/ \E request \in TierRequests : FetchTier(request)
  \/ \E p \in Procs : Handled(p, Returns(p))
  \/ TickTier

SpecTier == InitSrv /\ [][NextTier]_vars

\* the requests of one token and the admin requests that set its override,
\* handled concurrently, every store call returning
FetchOvr(request) == Fetch(request, MaxRequestsOvr)

NextOvr ==
  \/ \E request \in SeqRequests : FetchOvr(request)
  \/ \E i \in 1 .. MaxAdminInFlight : AdminJson(i)
  \/ \E p \in Procs : Handled(p, Returns(p))
  \/ TickSrv

SpecOvr == InitSrv /\ [][NextOvr]_vars

\* --------------------------------------- src/server.ts: the token required
UnauthorizedResponse == Response(401, "Unauthorized", {})

\* !authHeader || !authHeader.startsWith("Bearer ")
Unauthorized(request) == ~IsClientId(request)

\* handleRequest of src/server.ts up to its first store round trip
\* a request without a token handled under its source address
HandleRequestBearer_addressFallback(request, maxRequestsSrv) ==
  HandleRequestWith(request, maxRequestsSrv, rateLimiters)

HandleRequestBearer(request, maxRequestsSrv) ==
  /\ Received < maxRequestsSrv
  /\ IF IsPreflight(request)
     THEN Respond(addCorsHeaders(PreflightResponse, request.origin))
          /\ UNCHANGED <<clock, config, store, ttl, chk, issued, hist, peak,
                         kinds>>
     ELSE IF Unauthorized(request)
     THEN Respond(addCorsHeaders(UnauthorizedResponse, request.origin))
          /\ UNCHANGED <<clock, config, store, ttl, chk, issued, hist, peak,
                         kinds>>
     ELSE LET clientId == Substring(request.authorization[1], 7)
          IN /\ \E p \in Procs :
                  StartCheckFor(p, clientId, rateLimiters[getUserRole(clientId)],
                                maxRequestsSrv, request.origin)
             /\ kinds' = Append(kinds, "token")
             /\ NoResponse
  /\ UNCHANGED <<overrides, adm>>

\* serve.fetch of src/server.ts: every request goes to handleRequest
FetchBearer(request) == HandleRequestBearer(request, MaxRequestsSrv)

NextBearer ==
  \/ \E request \in Requests : FetchBearer(request)
  \/ \E p \in Procs : Handled(p, Returns(p))
  \/ \E p \in Procs : Handled(p, RedisFails(p))
  \/ \E p \in Procs : Handled(p, Dies(p))
  \/ TickSrv

SpecBearer == InitSrv /\ [][NextBearer]_vars

\* ------------------------------------------------- vocabulary of the claims
Admitted(r) == r.tag = "void"
Denied(r) == r.tag = "RateLimitExceeded"
Failed(r) == r.tag = "RedisError"

Last(h) == h[Len(h)]

\* two checks of client c have been in flight together
Overlapped(c) == peak[c] > 1

NoStoreError(c) == \A i \in DOMAIN hist[c] : ~Failed(hist[c][i])

\* the checks of c so far ran one after another and no store call failed
Sequential(c) == ~Overlapped(c) /\ NoStoreError(c)

\* every check of c resolved within the safety buffer of the key's expiry
Timely(c) ==
  \A i \in DOMAIN hist[c] : hist[c][i].done - hist[c][i].now <= SafetyBufferMs

\* no admitted check before the i-th is inside the i-th check's window
WindowEmptyAt(h, i) ==
  \A k \in 1 .. i - 1 : Admitted(h[k]) => h[k].now <= h[i].now - windowMs

\* the check in slot p resolves in this step with the given tag
Resolves(p, tag) ==
  /\ InFlight(p)
  /\ chk'[p].pc = "idle"
  /\ hist'[chk[p].clientId] # hist[chk[p].clientId]
  /\ Last(hist'[chk[p].clientId]).tag = tag

\* ---------------------------------------------------------------------- C1
FirstAdmitted(h) ==
  \A i, j \in DOMAIN h :
    (/\ i <= j
     /\ WindowEmptyAt(h, i)
     /\ j - i < maxRequests
     /\ h[j].now - h[i].now < windowMs) => Admitted(h[j])

\* C1: starting from an empty window, maxRequests checks issued one
\* after another within less than windowMs are admitted, and the next check
\* issued before windowMs has elapsed since the first is denied with
\* RateLimitExceeded carrying the identifier.
C1_NextDeniedWithinWindow ==
  \A c \in Clients : Sequential(c) =>
    /\ FirstAdmitted(hist[c])
    /\ \A i, j \in DOMAIN hist[c] :
         (/\ j = i + maxRequests
          /\ WindowEmptyAt(hist[c], i)
          /\ hist[c][j].now - hist[c][i].now < windowMs)
         => Denied(hist[c][j]) /\ hist[c][j].clientId = c

\* what holds of the next check: it is denied when it is also resolved before
\* windowMs has elapsed since the first (the key cannot have expired by then)
C1_NextDeniedWhenResolved ==
  \A c \in Clients : Sequential(c) =>
    /\ FirstAdmitted(hist[c])
    /\ \A i, j \in DOMAIN hist[c] :
         (/\ j = i + maxRequests
          /\ WindowEmptyAt(hist[c], i)
          /\ hist[c][j].done - hist[c][i].now < windowMs)
         => Denied(hist[c][j]) /\ hist[c][j].clientId = c

C1_DeniedReached ==
  \E c \in Clients :
    /\ Sequential(c)
    /\ Len(hist[c]) = maxRequests + 1
    /\ \A i \in 1 .. maxRequests : Admitted(hist[c][i])
    /\ Denied(Last(hist[c]))
    /\ Last(hist[c]).now > hist[c][1].now
    /\ Last(hist[c]).done - hist[c][1].now < windowMs

\* ---------------------------------------------------------------------- C2
\* the admitted checks of h whose timestamps lie in [t, t + windowMs)
AdmittedWithin(h, t) ==
  { j \in DOMAIN h : Admitted(h[j]) /\ t <= h[j].now /\ h[j].now < t + windowMs }

BurstBounded(h) ==
  \A i \in DOMAIN h :
    Admitted(h[i]) => Cardinality(AdmittedWithin(h, h[i].now)) <= maxRequests

\* C2: when the checks of an identifier do not overlap, any set of
\* admitted checks whose timestamps span less than windowMs has at most
\* maxRequests members.
C2_BurstBounded == \A c \in Clients : ~Overlapped(c) => BurstBounded(hist[c])

\* what holds of bursts: the bound, in executions in which every check of the
\* identifier resolves within the safety buffer of the key's expiry
C2_BurstBoundedWhenTimely ==
  \A c \in Clients : (~Overlapped(c) /\ Timely(c)) => BurstBounded(hist[c])

\* the window slides: three admissions, the last within windowMs of the
\* second but not of the first, and a denial
C2_SlideReached ==
  \E c \in Clients :
    /\ ~Overlapped(c) /\ Timely(c)
    /\ Len(hist[c]) = 4
    /\ Admitted(hist[c][1]) /\ Admitted(hist[c][2]) /\ Admitted(hist[c][3])
    /\ hist[c][3].now - hist[c][2].now < windowMs
    /\ hist[c][3].now - hist[c][1].now >= windowMs
    /\ Denied(hist[c][4])

\* ---------------------------------------------------------------------- C3
\* C3: under any interleaving, with at most K checks of an identifier in
\* flight at any moment its sorted set never holds more than maxRequests + K
\* entries; checked in the sharper form maxRequests + K - 1, each check in
\* flight beyond the first accounting for at most one entry above the limit.
C3_Overshoot ==
  \A c \in Clients :
    Cardinality(store[getKey(c)]) <= maxRequests + Max(peak[c], 1) - 1

\* overlapping checks have pushed the set above maxRequests, up to the bound
C3_Witness ==
  \E c \in Clients :
    /\ peak[c] > 1
    /\ Cardinality(store[getKey(c)]) > maxRequests
    /\ Cardinality(store[getKey(c)]) = maxRequests + peak[c] - 1

\* ---------------------------------------------------------------------- C4
\* the scores of the set lie inside one window
InOneWindow(set) == \A e, f \in set : e.score - f.score < windowMs

\* C4: a set holding more than maxRequests entries arises only from checks of
\* the identifier that were in flight together (the interleaving itself is
\* the witness).
C4_OnlyByOverlap ==
  \A c \in Clients :
    Cardinality(store[getKey(c)]) > maxRequests => Overlapped(c)

\* two overlapping checks were both admitted, each having read a count below
\* maxRequests, and left more than maxRequests entries inside one window
C4_Witness ==
  \E c \in Clients :
    /\ Len(hist[c]) >= 2
    /\ \E i, j \in DOMAIN hist[c] :
         /\ i # j
         /\ Admitted(hist[c][i]) /\ ~hist[c][i].alone
         /\ Admitted(hist[c][j]) /\ ~hist[c][j].alone
    /\ Cardinality(store[getKey(c)]) > maxRequests
    /\ InOneWindow(store[getKey(c)])

\* ---------------------------------------------------------------------- C5
\* the entry the check in slot p appends
NewEntry(p) ==
  [score |-> chk[p].now, member |-> uniqueMember(chk[p].now, chk[p].rnd)]

NoOlderThanWindow(set, now) == \A e \in set : ~(e.score < now - windowMs)

\* C5 as stated: when a check that captured now completes with admit, the set
\* holds no entry older than now - windowMs and, compared with the set just
\* before the call, exactly one entry (score = now) was appended.
C5_AsStated ==
  [][\A p \in Procs : Resolves(p, "void") =>
       LET set == store'[getKey(chk[p].clientId)]
       IN /\ NoOlderThanWindow(set, chk[p].now)
          /\ set \ chk[p].before = {NewEntry(p)}]_vars

\* C5 (amended): when no other check of the identifier is in flight during the
\* call, an admitted check leaves the set with no entry older than
\* now - windowMs, and compared with the set just before the call the only new
\* entry is the one it appended (score = now); that entry is in the set unless
\* the key expired between the add and the expiry refresh, and then the set is
\* empty.
C5_AdmitAlone ==
  [][\A p \in Procs : (Resolves(p, "void") /\ chk[p].alone) =>
       LET set == store'[getKey(chk[p].clientId)]
       IN /\ NoOlderThanWindow(set, chk[p].now)
          /\ NewEntry(p) \notin chk[p].before
          /\ set \ chk[p].before \subseteq {NewEntry(p)}
          /\ NewEntry(p) \in set \/ set = {}]_vars

\* an admitted check that ran alone purged an earlier entry and its own entry
\* is in the set
C5_Witness ==
  \E c \in Clients :
    /\ Len(hist[c]) >= 2
    /\ Admitted(hist[c][1])
    /\ Admitted(Last(hist[c])) /\ Last(hist[c]).alone
    /\ hist[c][1].now < Last(hist[c]).now - windowMs
    /\ \E e \in store[getKey(c)] : e.score = Last(hist[c]).now
    /\ \A e \in store[getKey(c)] : e.score # hist[c][1].now

\* ---------------------------------------------------------------------- C6
\* C6: a check that reads a count >= maxRequests goes on to the range read and
\* resolves only as a denial (or a store error); a denied check has read a
\* count >= maxRequests, has issued no add and no expiry refresh, its last
\* step changes no set and no expiry, none of its store calls adds a member,
\* and when no other check of the identifier was in flight the set holds no
\* member that was not in it before the call.
C6_DenyAppendsNothing ==
  [][\A p \in Procs :
       /\ (chk[p].pc = "zcard" /\ chk'[p].pc \in {"zrange", "zadd"}) =>
            (chk'[p].pc = "zrange" <=> chk'[p].count >= maxRequests)
       /\ (chk[p].pc = "zrange" /\ chk'[p].pc # "zrange") =>
            (Resolves(p, "RateLimitExceeded") \/ Resolves(p, "RedisError"))
       /\ (chk[p].pc \in {"zremrangebyscore", "zcard", "zrange"}
           /\ chk'[p] # chk[p]) =>
            store'[getKey(chk[p].clientId)] \subseteq store[getKey(chk[p].clientId)]
       /\ Resolves(p, "RateLimitExceeded") =>
            /\ chk[p].count >= maxRequests
            /\ chk[p].calls \cap {"zadd", "pexpire"} = {}
            /\ store' = store /\ ttl' = ttl
            /\ chk[p].alone =>
                 store'[getKey(chk[p].clientId)] \subseteq chk[p].before]_vars

\* a check that ran alone was denied on a set holding maxRequests entries
C6_Witness ==
  \E c \in Clients :
    /\ Len(hist[c]) > maxRequests
    /\ Denied(Last(hist[c])) /\ Last(hist[c]).alone
    /\ Cardinality(store[getKey(c)]) = maxRequests

\* ---------------------------------------------------------------------- C7
\* the admitted checks still counted as of the check before the j-th
Counted(h, j) ==
  { i \in 1 .. j - 1 : Admitted(h[i]) /\ h[i].now > h[j - 1].now - windowMs }

\* those of S that have left the window of a check with timestamp t
Left(h, S, t) == { i \in S : h[i].now <= t - windowMs }

EarliestNow(h, S) ==
  CHOOSE t \in { h[i].now : i \in S } : \A i \in S : t <= h[i].now

\* the window was full before the j-th check and windowMs has elapsed since
\* its earliest still-counted request
FullAndElapsed(h, j) ==
  /\ j >= 2
  /\ Cardinality(Counted(h, j)) = maxRequests
  /\ h[j].now >= EarliestNow(h, Counted(h, j)) + windowMs

AdmittedOnExpiry(h) ==
  \A j \in DOMAIN h : FullAndElapsed(h, j) => Admitted(h[j])

\* only one entry has left the window at the j-th check and at the next one
OnlyEarliestLeft(h, j) ==
  /\ j + 1 \in DOMAIN h
  /\ Cardinality(Left(h, Counted(h, j), h[j].now)) = 1
  /\ Left(h, Counted(h, j) \cup {j}, h[j + 1].now)
       = Left(h, Counted(h, j), h[j].now)

ExactlyOneMore(h) ==
  \A j \in DOMAIN h :
    (FullAndElapsed(h, j) /\ OnlyEarliestLeft(h, j)) => Denied(h[j + 1])

\* C7: with a full window, once windowMs has elapsed since the
\* earliest still-counted request the next check is admitted, and if only that
\* entry has left the window the check after it is denied.
C7_ExactlyOneMore ==
  \A c \in Clients : Sequential(c) =>
    AdmittedOnExpiry(hist[c]) /\ ExactlyOneMore(hist[c])

\* what holds of the expiry of one entry: the admission always, the denial of
\* the following check in executions in which every check of the identifier
\* resolves within the safety buffer of the key's expiry
C7_ExactlyOneMoreWhenTimely ==
  \A c \in Clients : Sequential(c) =>
    /\ AdmittedOnExpiry(hist[c])
    /\ Timely(c) => ExactlyOneMore(hist[c])

\* a full window, a check admitted exactly windowMs after the earliest entry,
\* and the check after it denied
C7_SlideReached ==
  \E c \in Clients :
    /\ Sequential(c) /\ Timely(c)
    /\ \E j \in DOMAIN hist[c] :
         /\ FullAndElapsed(hist[c], j)
         /\ hist[c][j].now = EarliestNow(hist[c], Counted(hist[c], j)) + windowMs
         /\ OnlyEarliestLeft(hist[c], j)
         /\ Admitted(hist[c][j])
         /\ Denied(hist[c][j + 1])

\* ---------------------------------------------------------------------- C8
\* the client whose check occupies slot p in this step
Owner(p) == IF InFlight(p) THEN chk[p].clientId ELSE chk'[p].clientId

\* the checks issued so far for client c
IssuedFor(c) == { n \in DOMAIN issued : issued[n] = c }

\* C8: a step of a check on A leaves the set and the expiry of every other
\* identifier unchanged; every entry of an identifier's set was appended by a
\* check on that identifier; and a check on B is denied only after at least
\* maxRequests other checks on B.
C8_Isolation ==
  [][/\ \A p \in Procs : chk'[p] # chk[p] =>
          \A b \in Clients \ {Owner(p)} :
            /\ store'[getKey(b)] = store[getKey(b)]
            /\ ttl'[getKey(b)] = ttl[getKey(b)]
     /\ \A b \in Clients :
          /\ \A e \in store'[getKey(b)] : issued'[e.member[2]] = b
          /\ \A i \in DOMAIN hist'[b] :
               Denied(hist'[b][i]) =>
                 Cardinality(IssuedFor(b)) > maxRequests]_vars

\* A's limit is exhausted (its set holds maxRequests entries, all inside the
\* window) and a check on B issued after that is admitted
C8_Witness ==
  \E a, b \in Clients :
    /\ a # b
    /\ hist[a] # << >> /\ Admitted(Last(hist[a]))
    /\ Cardinality(store[getKey(a)]) = maxRequests
    /\ hist[b] # << >> /\ Admitted(Last(hist[b]))
    /\ Last(hist[b]).now >= Last(hist[a]).done
    /\ \A e \in store[getKey(a)] : e.score > Last(hist[b]).now - windowMs

\* ---------------------------------------------------------------------- C9
LowestScore(set) ==
  CHOOSE t \in { e.score : e \in set } : \A e \in set : t <= e.score

\* r is the least whole number of seconds >= 0 that covers ms milliseconds
LeastSecondsCovering(r, ms) ==
  /\ r \in Nat
  /\ r * 1000 >= ms
  /\ r > 0 => (r - 1) * 1000 < ms

\* C9: a denial whose range read finds an entry carries
\* retryAfter = max(0, ceil((oldestScore + windowMs - now) / 1000)), a
\* non-negative whole number of seconds, where oldestScore is the lowest score
\* of the set at the range read and now the denied call's own timestamp.
C9_RetryAfter ==
  [][\A p \in Procs :
       (Resolves(p, "RateLimitExceeded")
        /\ store[getKey(chk[p].clientId)] # {}) =>
         LET r == Last(hist'[chk[p].clientId]).retryAfter
             oldestScore == LowestScore(store[getKey(chk[p].clientId)])
         IN /\ Len(r) = 1
            /\ LeastSecondsCovering(r[1], oldestScore + windowMs - chk[p].now)]_vars

\* a denial carrying two seconds for 1500 ms left of the oldest entry's window
C9_Witness ==
  \E c \in Clients :
    /\ hist[c] # << >>
    /\ Denied(Last(hist[c]))
    /\ Last(hist[c]).retryAfter = <<2>>
    /\ store[getKey(c)] # {}
    /\ LowestScore(store[getKey(c)]) + windowMs - Last(hist[c]).now = 1500

\* --------------------------------------------------------------------- C10
\* C10: in an execution of non-overlapping checks, after a denial carrying
\* retryAfter = r and no admission of the identifier in between, a check
\* issued at least r * 1000 ms after the denied call's timestamp is admitted.
C10_RetrySufficient ==
  \A c \in Clients : Sequential(c) =>
    \A d, j \in DOMAIN hist[c] :
      (/\ d < j
       /\ Denied(hist[c][d])
       /\ hist[c][d].retryAfter # << >>
       /\ \A k \in d + 1 .. j - 1 : ~Admitted(hist[c][k])
       /\ hist[c][j].now >= hist[c][d].now + hist[c][d].retryAfter[1] * 1000)
      => Admitted(hist[c][j])

\* a check issued exactly r * 1000 ms after the denial, with the oldest entry
\* exactly windowMs old, is admitted
C10_Witness ==
  \E c \in Clients :
    /\ Sequential(c)
    /\ \E d, j \in DOMAIN hist[c] :
         /\ d < j
         /\ Denied(hist[c][d])
         /\ hist[c][d].retryAfter # << >>
         /\ \A k \in 1 .. d - 1 : Admitted(hist[c][k])
         /\ \A k \in d + 1 .. j - 1 : ~Admitted(hist[c][k])
         /\ hist[c][j].now = hist[c][d].now + hist[c][d].retryAfter[1] * 1000
         /\ hist[c][j].now = hist[c][1].now + windowMs
         /\ Admitted(hist[c][j])

\* ------------------------------------------ vocabulary of the server claims
\* this step is the receipt of the request by serve.fetch
Fetched(request) == Fetch(request, Max(MaxRequestsSrv, MaxRequestsSeq))

\* the requests serve.fetch hands to the dispatcher
Dispatched == { r \in Requests : ~(r.path = AdminPath /\ r.method = "POST") }

\* the requests that bear the token x and are no preflight
Bearing(x) ==
  { r \in Dispatched :
      r.method # "OPTIONS" /\ r.authorization = <<"Bearer " \o x>> }

\* the response is the bypass outcome
IsBypass(r) ==
  /\ r.status = 200
  /\ r.body = "Success (Override Active)"
  /\ <<"X-Rate-Limit-Remaining", "Overridden">> \in r.headers

\* --------------------------------------------------------------------- C11
\* C11: while the override map holds true for the token x, every request
\* bearing x that reaches the dispatcher is answered, in the step that
\* receives it, with the bypass outcome (200, 'Success (Override Active)',
\* X-Rate-Limit-Remaining: Overridden), and that step starts no check and
\* leaves every sorted set and every expiry of the store as they were.
C11_BypassWhileOverridden ==
  [][\A x \in Clients : \A request \in Bearing(x) :
       (overrides[x] = <<TRUE>> /\ Fetched(request))
         => /\ resp' # << >> /\ IsBypass(resp'[1])
            /\ UNCHANGED <<store, ttl, chk, issued>>]_vars

\* a request was answered with the bypass outcome under an override that the
\* admin pipeline had set to true
C11_Witness ==
  /\ resp # << >> /\ IsBypass(resp[1])
  /\ \E x \in Clients :
       /\ overrides[x] = <<TRUE>>
       /\ hist[x] # << >> /\ Last(hist[x]).tag = "bypass"

\* --------------------------------------------------------------------- C12
\* the configuration of the limiter that decides the requests of x
TierOf(x) == rateLimiters[getUserRole(x)]

\* the admitted checks before the k-th entry of h that lie inside the window
\* of the k-th entry
InWindowOf(h, k, cfg) ==
  { i \in 1 .. k - 1 : Admitted(h[i]) /\ h[i].now > h[k].now - cfg.windowMs }

\* the k-th entry of h is decided on the window as the admitted checks left it
DecidedOnWindow(h, k, cfg) ==
  IF Cardinality(InWindowOf(h, k, cfg)) >= cfg.maxRequests
  THEN Denied(h[k])
  ELSE Admitted(h[k])

\* C12: once the override of the token x is back to false, a request bearing
\* x is decided by the check on x's window as the admitted requests left it,
\* the bypassed ones having added nothing: it is denied when the window holds
\* maxRequests admitted requests (so the one after maxRequests admitted ones
\* is denied, and so is the next one when the window is still exhausted), and
\* it is admitted, without the bypass indication, when the window holds fewer.
C12_EnforcedAfterOverride ==
  \A x \in Clients : Sequential(x) =>
    \A j, k \in DOMAIN hist[x] :
      (j < k /\ hist[x][j].tag = "bypass" /\ hist[x][k].tag # "bypass")
        => DecidedOnWindow(hist[x], k, TierOf(x))

\* what holds: the same, of the requests whose check resolved within the
\* safety buffer of the key's expiry
C12_EnforcedWhenTimely ==
  \A x \in Clients : (Sequential(x) /\ Timely(x)) =>
    \A j, k \in DOMAIN hist[x] :
      (j < k /\ hist[x][j].tag = "bypass" /\ hist[x][k].tag # "bypass")
        => DecidedOnWindow(hist[x], k, TierOf(x))

\* with the override not true, a request bearing x is handed to the check of
\* x's tier on x's key, and no response is returned in that step
C12_DecidedByCheck ==
  [][\A x \in Clients : \A request \in Bearing(x) :
       (overrides[x] # <<TRUE>> /\ Fetched(request))
         => /\ resp' = << >>
            /\ \E p \in Procs :
                 /\ ~InFlight(p)
                 /\ chk'[p].pc = "zremrangebyscore"
                 /\ chk'[p].clientId = x
                 /\ chk'[p].config = TierOf(x)]_vars

\* override on, a bypass, override off, then maxRequests requests admitted
\* and the one after them denied
C12_DeniedReached ==
  \E x \in Clients :
    /\ overrides[x] = <<FALSE>>
    /\ Len(hist[x]) = TierOf(x).maxRequests + 2
    /\ hist[x][1].tag = "bypass"
    /\ \A i \in 2 .. Len(hist[x]) - 1 : Admitted(hist[x][i])
    /\ Denied(Last(hist[x]))

\* --------------------------------------------------------------------- C13
\* the request carries a bearer token
HasBearer(r) ==
  r.authorization # << >> /\ StartsWith(r.authorization[1], "Bearer ")

\* the requests of the dispatcher whose identifier is the source address a
AddressDerived(a) ==
  { r \in Dispatched : r.method # "OPTIONS" /\ ~HasBearer(r) /\ r.ip = <<a>> }

\* this step hands a request to the check of identifier c
CheckStarted(c) ==
  \E p \in Procs :
    /\ ~InFlight(p)
    /\ chk'[p].pc = "zremrangebyscore"
    /\ chk'[p].clientId = c

\* C13: a request without a bearer token, identified by its source address,
\* is never answered with the bypass outcome: whatever the override map holds
\* for the address, the step that receives the request hands it to the check
\* on the address and returns nothing, and the response a resolving check
\* returns is never the bypass outcome.
C13_NoBypassForAddress ==
  [][/\ \A a \in Clients : \A request \in AddressDerived(a) :
          Fetched(request) => resp' = << >> /\ CheckStarted(a)
     /\ (\E p \in Procs : InFlight(p) /\ chk'[p].pc = "idle")
          => resp' # << >> /\ ~IsBypass(resp'[1])]_vars

\* the override of an address was set to true through the admin endpoint and
\* the only request so far, identified by that address, got the answer of its
\* check
C13_Witness ==
  \E a \in Clients :
    /\ overrides[a] = <<TRUE>>
    /\ issued = <<a>> /\ kinds = <<"address">>
    /\ resp # << >> /\ resp[1].status = 200 /\ ~IsBypass(resp[1])
    /\ Len(hist[a]) = 1 /\ Admitted(hist[a][1])

\* --------------------------------------------------------------------- C14
\* this step applies the admin request r: its content type names JSON, its
\* body parses to an object with a string clientId and a boolean override,
\* and the flag of clientId becomes override
Applies(r) ==
  /\ r.contentType # << >> /\ Includes(r.contentType[1], "application/json")
  /\ r.body.parses /\ r.body.kind = "object"
  /\ \E c \in Clients, b \in {"true", "false"} :
       /\ <<"clientId", "string", c>> \in r.body.fields
       /\ <<"override", "boolean", b>> \in r.body.fields
       /\ overrides' = [overrides EXCEPT ![c] = <<b = "true">>]

\* C14: the override map changes only in the step in which the admin
\* pipeline applies a fully validated request; the step that receives a
\* request on the dispatcher and every step of a check leave the map as it
\* is; and a request without a bearer token is never answered from the map.
C14_OnlyAdminSets ==
  [][/\ overrides' # overrides
          => \E i \in DOMAIN adm :
               /\ Applies(adm[i])
               /\ Len(adm') = Len(adm) - 1
     /\ \A request \in Dispatched :
          Fetched(request)
            => /\ UNCHANGED overrides
               /\ ~HasBearer(request)
                    => ~(resp' # << >> /\ IsBypass(resp'[1]))
     /\ (\E p \in Procs : InFlight(p) /\ chk'[p] # chk[p])
          => UNCHANGED overrides]_vars

\* the admin pipeline has applied a request that sets a flag, after another
\* request was answered
C14_Witness ==
  /\ overrides["premium-1"] = <<TRUE>>
  /\ resp # << >>
  /\ resp[1].status = 200
  /\ resp[1].body = "{\"message\":\"Override for premium-1 set to true.\"}"
  /\ answered = 2

\* --------------------------------------------------------------------- C15
\* the class of the identifier of the check issued k-th: "token" or "address"
ClassOf(k) == kinds[k]

\* the entries of the window of the check in slot p that requests of its own
\* class of identifier added
OwnClassEntries(p) ==
  { e \in store[getKey(chk[p].clientId)] :
      ClassOf(e.member[2]) = ClassOf(chk[p].rnd) }

\* the check in slot p finds the limit reached in this step
FindsLimitReached(p) == chk[p].pc = "zcard" /\ chk'[p].pc = "zrange"

\* C15: rate limiting by address and by token are separate for every token
\* string: a request is found over the limit only on account of requests of
\* its own class, token-bearing or token-less; at least maxRequests of the
\* entries counted against it were added by requests of that class.
C15_DeniedByOwnClass ==
  [][\A p \in Procs :
       FindsLimitReached(p)
         => Cardinality(OwnClassEntries(p)) >= chk[p].config.maxRequests]_vars

\* what holds: the same, of an identifier that requests of one class only use
C15_DeniedByOwnClassWhenDistinct ==
  [][\A p \in Procs :
       (/\ FindsLimitReached(p)
        /\ \A k \in DOMAIN issued :
             issued[k] = chk[p].clientId => ClassOf(k) = ClassOf(chk[p].rnd))
         => Cardinality(OwnClassEntries(p)) >= chk[p].config.maxRequests]_vars

\* a token-less request is found over the limit
C15_LimitReached ==
  \E p \in Procs :
    /\ chk[p].pc = "zrange"
    /\ ClassOf(chk[p].rnd) = "address"
    /\ \A k \in DOMAIN issued : ClassOf(k) = "address"

\* --------------------------------------------------------------------- C16
\* what a step of the dispatcher returns
TerminalOrPending ==
  /\ \A request \in Dispatched :
       Fetched(request)
         => \/ /\ resp' # << >>
               /\ answered' = answered + 1
               /\ \/ resp'[1].status \in {204, 400}
                  \/ IsBypass(resp'[1])
               /\ UNCHANGED chk
            \/ /\ resp' = << >>
               /\ answered' = answered
               /\ Cardinality({ p \in Procs : InFlight(p)' }) =
                    Cardinality({ p \in Procs : InFlight(p) }) + 1
  /\ \A p \in Procs :
       (InFlight(p) /\ chk'[p] # chk[p])
         => IF chk'[p].pc = "idle"
            THEN /\ resp' # << >>
                 /\ answered' = answered + 1
                 /\ resp'[1].status \in {200, 429, 500}
                 /\ ~IsBypass(resp'[1])
            ELSE resp' = << >> /\ answered' = answered

\* C16: a request handed to the dispatcher gets exactly one terminal
\* response.  The step that receives it either returns 204, 400 or the 200 of
\* the bypass and starts no check, or starts one check and returns nothing;
\* a step of a check returns nothing until the check resolves, and the step
\* in which it resolves, whatever its outcome (success, denial, store error,
\* any other cause), returns one response with status 200, 429 or 500.
\* Provided every pending store call returns or fails in the end, every check
\* resolves, so that no request is left without its response.
C16_OneTerminalResponse ==
  /\ [][TerminalOrPending]_vars
  /\ \A p \in Procs : InFlight(p) ~> ~InFlight(p)

\* the same of the responses, request by request, when requests are handled
\* concurrently
C16_TerminalUnderConcurrency == [][TerminalOrPending]_vars

\* a check ended by a cause that is no failure was answered 500, and no
\* request is pending
C16_Witness ==
  /\ resp # << >>
  /\ resp[1].status = 500
  /\ resp[1].body = "Internal Server Error"
  /\ \E c \in Clients : hist[c] # << >> /\ Last(hist[c]).tag = "Die"
  /\ Pending = 0

\* --------------------------------------------------------------------- C17
\* the tier each identifier of the model belongs to
TierName(c) == IF c = "premium-1" THEN "premium" ELSE "free"

\* the response is the success of an admitted request
IsAvailable(r) ==
  r.status = 200 /\ <<"X-Rate-Limit-Remaining", "Available">> \in r.headers

\* C17: the response to a request that was not bypassed is determined by the
\* outcome of its check.  The step in which the check admits returns 200 with
\* X-Rate-Limit-Remaining: Available and a body naming the identifier's tier;
\* the step in which it denies returns 429 with X-Rate-Limit-Exceeded: true;
\* the step in which it fails on the store returns 500.  Conversely, a
\* response 200 with X-Rate-Limit-Remaining: Available is returned only in a
\* step in which a check admits, having added its entry to the window.
C17_ResponseFollowsOutcome ==
  [][/\ \A p \in Procs :
          /\ Resolves(p, "void")
               => /\ resp' # << >> /\ IsAvailable(resp'[1])
                  /\ resp'[1].body =
                       "Success (Role: " \o TierName(chk[p].clientId) \o ")"
          /\ Resolves(p, "RateLimitExceeded")
               => /\ resp' # << >> /\ resp'[1].status = 429
                  /\ <<"X-Rate-Limit-Exceeded", "true">> \in resp'[1].headers
          /\ Resolves(p, "RedisError")
               => resp' # << >> /\ resp'[1].status = 500
     /\ (resp' # << >> /\ IsAvailable(resp'[1]))
          => \E p \in Procs :
               /\ Resolves(p, "void")
               /\ chk[p].pc = "pexpire"
               /\ chk[p].calls = {"zremrangebyscore", "zcard", "zadd"}]_vars

\* a request of the premium tier was admitted and answered so, after a store
\* error had been answered 500
C17_Witness ==
  /\ resp # << >> /\ IsAvailable(resp[1])
  /\ resp[1].body = "Success (Role: premium)"
  /\ \E e \in store[getKey("premium-1")] : e.score = Last(hist["premium-1"]).now
  /\ \E c \in Clients : \E i \in DOMAIN hist[c] : Failed(hist[c][i])

\* --------------------------------------------------------------------- C18
\* the values of the Retry-After headers of a response
RetryAfterHeaders(r) == { h[2] : h \in { g \in r.headers : g[1] = "Retry-After" } }

\* the retryAfter of the denial with which the check in slot p resolves
DenialRetryAfter(p) == Last(hist'[chk[p].clientId]).retryAfter

\* C18: the 429 returned for a denial carries a Retry-After header exactly
\* when the denial carries a retryAfter value, 0 included, and the header's
\* value is that number of seconds.
C18_RetryAfterIffValue ==
  [][\A p \in Procs :
       Resolves(p, "RateLimitExceeded")
         => /\ resp' # << >> /\ resp'[1].status = 429
            /\ RetryAfterHeaders(resp'[1]) =
                 IF DenialRetryAfter(p) = << >>
                 THEN {}
                 ELSE { ToString(DenialRetryAfter(p)[1]) }]_vars

\* what holds: the header is there exactly when retryAfter is a number other
\* than 0, with that number as its value
C18_RetryAfterIffPositive ==
  [][\A p \in Procs :
       Resolves(p, "RateLimitExceeded")
         => /\ resp' # << >> /\ resp'[1].status = 429
            /\ RetryAfterHeaders(resp'[1]) =
                 IF DenialRetryAfter(p) = << >> \/ DenialRetryAfter(p) = <<0>>
                 THEN {}
                 ELSE { ToString(DenialRetryAfter(p)[1]) }]_vars

\* a denial with retryAfter 1 was answered 429 with Retry-After: 1
C18_PositiveReached ==
  /\ resp # << >> /\ resp[1].status = 429
  /\ RetryAfterHeaders(resp[1]) = {"1"}
  /\ \E c \in Clients :
       /\ hist[c] # << >>
       /\ Denied(Last(hist[c]))
       /\ Last(hist[c]).retryAfter = <<1>>

\* --------------------------------------------------------------------- C19
\* C19: every 429 response the dispatcher returns carries a Retry-After
\* header.
C19_Every429HasRetryAfter ==
  (resp # << >> /\ resp[1].status = 429) => RetryAfterHeaders(resp[1]) # {}

\* what holds: the 429 of a request carries the header when the requests of
\* its identifier were handled one after another and each check resolved
\* within the safety buffer of the key's expiry
C19_RetryAfterWhenTimely ==
  \A c \in Clients :
    (/\ resp # << >> /\ resp[1].status = 429
     /\ hist[c] # << >> /\ Denied(Last(hist[c]))
     /\ Sequential(c) /\ Timely(c))
      => RetryAfterHeaders(resp[1]) # {}

\* a 429 with its Retry-After header was returned
C19_HeaderReached ==
  /\ resp # << >> /\ resp[1].status = 429
  /\ RetryAfterHeaders(resp[1]) # {}

\* --------------------------------------------------------------------- C20
\* this step calls the check of identifier c for a request of the given class
CheckCalled(c, class) ==
  /\ CheckStarted(c)
  /\ issued' = Append(issued, c)
  /\ kinds' = Append(kinds, class)
  /\ resp' = << >>

WindowEmptyFor(h, i, W) ==
  \A k \in 1 .. i - 1 : Admitted(h[k]) => h[k].now <= h[i].now - W

\* starting from an empty window, the requests of h are admitted up to the
\* N-th within less than W, and the one after them, answered before W has
\* elapsed since the first, is denied
AdmittedUpTo(h, W, N) ==
  \A i, j \in DOMAIN h :
    (i <= j /\ WindowEmptyFor(h, i, W)) =>
      /\ (j - i < N /\ h[j].now - h[i].now < W) => Admitted(h[j])
      /\ (j - i = N /\ h[j].done - h[i].now < W) => Denied(h[j])

\* strings the tier function is put to, beside the identifiers of the model
TierSamples ==
  { "premium-x", "premium-", "x", "free-1", "premium", "Premium-1",
    "xpremium-1", "10.0.0.1", "" }

HasCorsHeaders(r) ==
  \A name \in { "Access-Control-Allow-Origin", "Access-Control-Allow-Methods",
                 "Access-Control-Allow-Headers",
                 "Access-Control-Expose-Headers" } :
    \E h \in r.headers : h[1] = name

\* C22: every response the server returns, from the dispatcher (204, 400,
\* the bypass 200, the success 200, 429, every 500) and from the admin route
\* (200, 415, 400), carries Access-Control-Allow-Origin,
\* Access-Control-Allow-Methods, Access-Control-Allow-Headers and
\* Access-Control-Expose-Headers, on error paths as on success paths.
C22_CorsOnEveryResponse ==
  resp # << >> =>
    /\ resp[1].status \in {200, 204, 400, 415, 429, 500}
    /\ HasCorsHeaders(resp[1])

\* a store error was answered 500 with the CORS headers, the origin of the
\* frontend echoed, after another request had been answered
C22_Witness ==
  /\ resp # << >>
  /\ resp[1].status = 500
  /\ resp[1].body = "Internal Server Error - Rate Limit Check Failed"
  /\ HasCorsHeaders(resp[1])
  /\ <<"Access-Control-Allow-Origin", "http://localhost:8080">>
       \in resp[1].headers
  /\ answered = 2
  /\ issued = <<"premium-1">>

\* --------------------------------------------------------------------- C23
\* C23: an OPTIONS request, to any path and with or without an Authorization
\* header, is answered in the step that receives it with 204, an empty body
\* and the CORS headers, whatever the override map holds for its token; the
\* step starts no check and leaves the override map, every sorted set, every
\* expiry and every identifier's history as they were.
C23_PreflightTerminal ==
  [][\A request \in Requests :
       (request.method = "OPTIONS" /\ Fetched(request))
         => /\ resp' # << >>
            /\ resp'[1].status = 204
            /\ resp'[1].body = ""
            /\ HasCorsHeaders(resp'[1])
            /\ UNCHANGED <<overrides, adm, chk, issued, kinds, store, ttl,
                           hist, peak>>]_vars

\* the preflight of the admin path, bearing the premium token, was answered
\* 204 while the override of that token was on and nothing had been recorded
\* for the token
C23_Witness ==
  /\ resp # << >>
  /\ resp[1].status = 204
  /\ <<"Access-Control-Allow-Origin", FrontendOrigin>> \in resp[1].headers
  /\ overrides["premium-1"] = <<TRUE>>
  /\ hist["premium-1"] = << >>
  /\ issued = << >>

\* --------------------------------------------------------------------- C24
\* the Content-Type of the request includes application/json
NamesJson(r) ==
  r.contentType # << >> /\ Includes(r.contentType[1], "application/json")

\* the parsed body is an object with clientId: string and override: boolean
MeetsSchema(b) ==
  /\ b.kind = "object"
  /\ \E c \in Clients, v \in {"true", "false"} :
       /\ <<"clientId", "string", c>> \in b.fields
       /\ <<"override", "boolean", v>> \in b.fields

\* this step settles the body of the i-th pending admin request
Settles(i) ==
  adm' = SubSeq(adm, 1, i - 1) \o SubSeq(adm, i + 1, Len(adm))

\* the response is the error of the given status and message
IsError(r, status, message) ==
  r # << >> /\ r[1].status = status
            /\ r[1].body = "{\"error\":\"" \o message \o "\"}"

\* C24: an override-mutation request is validated in the order content type,
\* JSON parse, schema, and fails at the first step it violates.  A
\* Content-Type that does not include application/json is answered 415 with
\* the content-type error carrying the provided value, in the step that
\* receives the request and whatever its body; otherwise the body is read,
\* and when it settles a body that does not parse is answered 400 with the
\* parse error, a parsed value that is no object with clientId: string and
\* override: boolean 400 with the schema error, and any other 200.
C24_ValidationOrder ==
  [][/\ \A request \in AdminRequests :
          Fetched(request) =>
            IF ~NamesJson(request)
            THEN /\ IsError(resp', 415,
                            "Content-Type must be application/json. Provided: "
                              \o (IF request.contentType = << >> THEN ""
                                  ELSE request.contentType[1]))
                 /\ UNCHANGED adm
            ELSE resp' = << >> /\ adm' = Append(adm, request)
     /\ \A i \in DOMAIN adm :
          Settles(i) =>
            /\ NamesJson(adm[i])
            /\ IF ~adm[i].body.parses
               THEN IsError(resp', 400, "Failed to parse JSON body")
               ELSE IF ~MeetsSchema(adm[i].body)
               THEN IsError(resp', 400, "Invalid request body format")
               ELSE resp' # << >> /\ resp'[1].status = 200]_vars

\* a request whose content type is not JSON was refused with 415 after
\* another request had been answered, no flag having been set
C24_Witness ==
  /\ resp # << >>
  /\ resp[1].status = 415
  /\ answered = 2
  /\ adm = << >>
  /\ issued = << >>
  /\ \A c \in Clients : overrides[c] = << >>

\* --------------------------------------------------------------------- C25
\* C25: an override-mutation request that fails a validation step leaves
\* the override map exactly as it was.  The step that refuses a request for
\* its content type, and the step in which the body of a request settles
\* unparseable or not meeting the schema, change no flag, set or unset; nor
\* does the step that receives a request and starts reading its body.
C25_FailedLeavesMap ==
  [][/\ \A request \in AdminRequests :
          Fetched(request) => UNCHANGED overrides
     /\ \A i \in DOMAIN adm :
          (Settles(i) /\ (~adm[i].body.parses \/ ~MeetsSchema(adm[i].body)))
            => /\ UNCHANGED overrides
               /\ resp' # << >> /\ resp'[1].status = 400]_vars

\* a request was refused with a validation error while the map held a flag
\* set by an earlier request, and the flag is still there
C25_Witness ==
  /\ resp # << >>
  /\ resp[1].status \in {400, 415}
  /\ resp[1].body # "Bad Request: Missing identifier"
  /\ answered = 2
  /\ overrides["premium-1"] = <<TRUE>>
  /\ overrides["10.0.0.1"] = << >>

\* --------------------------------------------------------------------- C26
\* C26: a valid override-mutation request {clientId: c, override: b} sets
\* the flag of c to b, adding it or overwriting the value it had, changes no
\* other identifier's flag, and is answered 200 with the message 'Override
\* for c set to b.'; and the flag of an identifier changes in no other step,
\* so that it holds the value of the last valid request for it until the
\* next one settles.
C26_SetsFlagLastWriteWins ==
  [][/\ \A i \in DOMAIN adm :
          (Settles(i) /\ adm[i].body.parses /\ MeetsSchema(adm[i].body))
            => \E c \in Clients, b \in BOOLEAN :
                 /\ <<"clientId", "string", c>> \in adm[i].body.fields
                 /\ <<"override", "boolean", IF b THEN "true" ELSE "false">>
                      \in adm[i].body.fields
                 /\ overrides'[c] = <<b>>
                 /\ \A d \in Clients \ {c} : overrides'[d] = overrides[d]
                 /\ resp' # << >>
                 /\ resp'[1].status = 200
                 /\ resp'[1].body =
                      "{\"message\":\"Override for " \o c \o " set to "
                        \o (IF b THEN "true" ELSE "false") \o ".\"}"
     /\ \A c \in Clients :
          overrides'[c] # overrides[c]
            => \E i \in DOMAIN adm :
                 /\ Settles(i)
                 /\ adm[i].body.parses /\ MeetsSchema(adm[i].body)
                 /\ <<"clientId", "string", c>> \in adm[i].body.fields]_vars

\* the second of two requests set the flag of one identifier to false and
\* was answered with the message, the other identifier's flag, set by the
\* first, being kept
C26_Witness ==
  /\ resp # << >>
  /\ resp[1].status = 200
  /\ resp[1].body = "{\"message\":\"Override for premium-1 set to false.\"}"
  /\ overrides["premium-1"] = <<FALSE>>
  /\ overrides["10.0.0.1"] = <<TRUE>>
  /\ answered = 2

\* --------------------------------------------------------------------- C27
\* the response of a store failure
IsStoreError(r) ==
  /\ r # << >>
  /\ r[1].status = 500
  /\ r[1].body = "Internal Server Error - Rate Limit Check Failed"

\* C27: when a store call of a check fails, whichever of its calls it is,
\* the check ends there with the store-error outcome: in that step the slot
\* of the check becomes idle, so that the failed call is not issued again
\* and no later call of the check is issued, the store is left as the
\* earlier calls made it, and the request is answered 500; and a check
\* that ended with the store-error outcome is never answered 200 or 429.
C27_StoreErrorEndsCheck ==
  [][\A p \in Procs :
       /\ RedisFails(p)
            => /\ chk'[p].pc = "idle"
               /\ Len(hist'[chk[p].clientId]) = Len(hist[chk[p].clientId]) + 1
               /\ Failed(Last(hist'[chk[p].clientId]))
               /\ UNCHANGED <<store, ttl, issued>>
               /\ IsStoreError(resp')
       /\ Resolves(p, "RedisError")
            => /\ IsStoreError(resp')
               /\ UNCHANGED <<store, ttl, issued>>]_vars

\* the last call of a check failed after its zadd had succeeded: the entry
\* is in the set, the key has no expiry, and the request was answered 500
C27_Witness ==
  /\ IsStoreError(resp)
  /\ \E c \in Clients :
       /\ hist[c] # << >>
       /\ Failed(Last(hist[c]))
       /\ Cardinality(store[getKey(c)]) = 1
       /\ ttl[getKey(c)] = << >>
       /\ InFlightFor(c) = {}
       /\ Len(hist[c]) = 1

\* --------------------------------------------------------------------- C28
\* the outcomes of a check
CheckOutcomes == {"void", "RateLimitExceeded", "RedisError"}

\* in this step the check in slot p resolves with exactly one outcome, or
\* stays in flight and records none
ResolvesOnceOrPending(p) ==
  LET c == chk[p].clientId
  IN IF chk'[p].pc = "idle"
     THEN /\ Len(hist'[c]) = Len(hist[c]) + 1
          /\ SubSeq(hist'[c], 1, Len(hist[c])) = hist[c]
          /\ Last(hist'[c]).tag \in CheckOutcomes
          /\ Last(hist'[c]).now = chk[p].now
     ELSE chk'[p] # chk[p] => hist' = hist

\* C28: every store call returning a result or an error in the end, every
\* check that was invoked resolves in the end, whatever the interleaving
\* with other checks; and it resolves once, to one of admit, deny
\* (RateLimitExceeded) and store-error: an outcome is recorded exactly in
\* the step in which a check in flight ends, one outcome for that check.
C28_EveryCheckResolves ==
  /\ [][/\ \A p \in Procs : InFlight(p) => ResolvesOnceOrPending(p)
        /\ hist' # hist
             => Cardinality({ p \in Procs :
                               InFlight(p) /\ chk'[p].pc = "idle" }) = 1]_vars
  /\ \A p \in Procs : InFlight(p) ~> ~InFlight(p)

\* two checks of one identifier, in flight together, have both resolved,
\* one admitted and one denied
C28_Witness ==
  /\ \A p \in Procs : ~InFlight(p)
  /\ \E c \in Clients :
       /\ peak[c] > 1
       /\ \E i, j \in DOMAIN hist[c] : Admitted(hist[c][i]) /\ Denied(hist[c][j])

Purges(p) == chk[p].pc = "zremrangebyscore" /\ chk'[p].pc = "zcard"

\* the count of the check in slot p returns in this step
Counts(p) == chk[p].pc = "zcard" /\ chk'[p].pc \in {"zadd", "zrange"}

\* the entries of a set with score at least t, and those with score above t
AtOrAfter(set, t) == { e \in set : e.score >= t }
After(set, t) == { e \in set : e.score > t }

\* C30 as stated: the purge of a check that captured time now leaves exactly
\* the entries with score at least now - windowMs; an entry whose score
\* equals now - windowMs stays in the set.
C30_AsStated ==
  [][\A p \in Procs :
       Purges(p)
         => store'[getKey(chk[p].clientId)]
              = AtOrAfter(store[getKey(chk[p].clientId)],
                          chk[p].now - chk[p].config.windowMs)]_vars

\* C30: the purge of a check that captured time now removes exactly the
\* entries with score at most now - windowMs (inclusive cutoff); the count
\* that follows is the size of the set as it then is; so for a check with no
\* other check of its identifier in flight, no entry with score at most
\* now - windowMs is in the set when it is counted: an entry whose score
\* equals now - windowMs is purged and not counted.
C30_InclusiveCutoff ==
  /\ [][\A p \in Procs :
          LET key == getKey(chk[p].clientId)
          IN /\ Purges(p)
                  => store'[key]
                       = After(store[key], chk[p].now - chk[p].config.windowMs)
             /\ Counts(p) => chk'[p].count = Cardinality(store[key])]_vars
  /\ [](\A p \in Procs :
          chk[p].pc = "zcard" /\ chk[p].alone
            => After(store[getKey(chk[p].clientId)],
                     chk[p].now - chk[p].config.windowMs)
                 = store[getKey(chk[p].clientId)])

\* a check that ran alone and without time passing found, when it was
\* called, an entry with score exactly now - windowMs, under a limit of one;
\* its purge removed the entry and its count returned 0
C30_Witness ==
  \E p \in Procs :
    /\ chk[p].pc = "zadd"
    /\ chk[p].alone
    /\ clock = chk[p].now
    /\ chk[p].config.maxRequests = 1
    /\ chk[p].count = 0
    /\ store[getKey(chk[p].clientId)] = {}
    /\ \E e \in chk[p].before :
         e.score = chk[p].now - chk[p].config.windowMs

\* --------------------------------------------------------------------- C31
\* C31: a denial omits retryAfter exactly when the range read of the denied
\* check returns no entry, the set being empty at the read; when the read
\* returns an entry the denial carries a retryAfter, a number, also when the
\* entry is older than the window of the denied check.
C31_OmittedIffNoEntry ==
  [][\A p \in Procs :
       Resolves(p, "RateLimitExceeded")
         => /\ chk[p].pc = "zrange"
            /\ (Last(hist'[chk[p].clientId]).retryAfter = << >>)
                 <=> (store[getKey(chk[p].clientId)] = {})
            /\ store[getKey(chk[p].clientId)] # {}
                 => /\ Len(Last(hist'[chk[p].clientId]).retryAfter) = 1
                    /\ Last(hist'[chk[p].clientId]).retryAfter[1] \in Nat]_vars

\* a check was denied without retryAfter: the entry it had counted was
\* purged by a check issued a window later, before its range read
C31_Witness ==
  \E c \in Clients :
    \E i, j \in DOMAIN hist[c] :
      /\ Admitted(hist[c][i])
      /\ Denied(hist[c][j])
      /\ hist[c][j].now = hist[c][i].now
      /\ hist[c][j].retryAfter = << >>
      /\ \E p \in InFlightFor(c) : chk[p].now = hist[c][j].now + windowMs

\* --------------------------------------------------------------------- C32
\* the time of the expiry refresh of the last admitted check of a history
LastRefresh(h) ==
  LET admitted == { i \in DOMAIN h : Admitted(h[i]) }
  IN h[CHOOSE i \in admitted : \A j \in admitted : h[j].done <= h[i].done].done

\* the key of an identifier with no check in flight and an admitted check in
\* its history: if it exists, the store removes it no later than
\* windowMs + 1000 ms after the refresh of the last admitted check
RemovedAfterLastRefresh(c) ==
  (/\ InFlightFor(c) = {}
   /\ \E i \in DOMAIN hist[c] : Admitted(hist[c][i])
   /\ store[getKey(c)] # {})
    => /\ ttl[getKey(c)] # << >>
       /\ ttl[getKey(c)][1] <= LastRefresh(hist[c]) + windowMs + SafetyBufferMs

\* C32: an admitted check, after its add, issues the refresh that sets the
\* expiry of the key, if the key exists, to windowMs + 1000 ms from then; a
\* denied check has issued neither add nor refresh and its denial leaves the
\* expiry as it is; and the key of an identifier with no check in flight is
\* removed by the store no later than windowMs + 1000 ms after the refresh
\* of its last admitted check.
C32_IdleKeyExpires ==
  /\ [][\A p \in Procs :
          LET key == getKey(chk[p].clientId)
          IN /\ Resolves(p, "void")
                  => /\ chk[p].pc = "pexpire" /\ "zadd" \in chk[p].calls
                     /\ store[key] # {}
                          => ttl'[key] = <<clock + chk[p].config.windowMs
                                                 + SafetyBufferMs>>
             /\ Resolves(p, "RateLimitExceeded")
                  => /\ chk[p].calls \cap {"zadd", "pexpire"} = {}
                     /\ ttl' = ttl]_vars
  /\ [](\A c \in Clients : RemovedAfterLastRefresh(c))

\* what holds of the removal: the bound, for an identifier none of whose
\* checks ended in a store error
C32_IdleKeyExpiresWithoutError ==
  \A c \in Clients : NoStoreError(c) => RemovedAfterLastRefresh(c)

\* a key left by an admitted check, its expiry set by the refresh, with no
\* check of the identifier in flight
C32_RefreshReached ==
  \E c \in Clients :
    /\ InFlightFor(c) = {}
    /\ hist[c] # << >> /\ Admitted(Last(hist[c]))
    /\ store[getKey(c)] # {}
    /\ ttl[getKey(c)] = <<Last(hist[c]).done + windowMs + SafetyBufferMs>>

\* --------------------------------------------------------------------- C33
\* time passes in this step and the store removes the key of identifier c,
\* whose expiry has been reached
KeyExpires(c) ==
  /\ clock' > clock
  /\ store[getKey(c)] # {}
  /\ store'[getKey(c)] = {}

\* the entries of the key of c that a check at the time of the key's expiry
\* would count
CountedAtExpiry(c) == After(store[getKey(c)], ttl[getKey(c)][1] - windowMs)

\* the check that made entry j of history h would have been denied on the
\* entries of all the checks admitted before it: the limit was reached by
\* those with a timestamp inside its window
DenyOnFullLog(h, j) ==
  Cardinality({ i \in 1 .. j - 1 :
                  Admitted(h[i]) /\ h[i].now > h[j].now - windowMs })
    >= maxRequests

\* C33: when the checks of an identifier do not overlap and no store call
\* fails, the expiry of a key at time t removes no entry with score above
\* t - windowMs, no entry that a check at time t would count; and no check
\* is admitted that would have been denied had no key expired.
C33_ExpiryRemovesNoCounted ==
  /\ [][\A c \in Clients :
          (KeyExpires(c) /\ Sequential(c)) => CountedAtExpiry(c) = {}]_vars
  /\ [](\A c \in Clients :
          Sequential(c) =>
            \A j \in DOMAIN hist[c] :
              Admitted(hist[c][j]) => ~DenyOnFullLog(hist[c], j))

\* what holds of the expiry: it removes no counted entry when no check of
\* the identifier is in flight
C33_ExpiryOfIdleKey ==
  [][\A c \in Clients :
       (KeyExpires(c) /\ Sequential(c) /\ InFlightFor(c) = {})
         => CountedAtExpiry(c) = {}]_vars

\* the key of an identifier with no check in flight has expired, its
\* entries all older than the window
C33_IdleExpiryReached ==
  \E c \in Clients :
    /\ hist[c] # << >> /\ Admitted(Last(hist[c]))
    /\ InFlightFor(c) = {}
    /\ store[getKey(c)] = {}
    /\ clock >= Last(hist[c]).done + windowMs + SafetyBufferMs

\* --------------------------------------------------------------------- C34
\* C34: when a check ends in store-error and the failing call is the purge,
\* the count, the range read or the add, the check has added no entry and
\* its entry is not in the set; when the failing call is the expiry refresh,
\* the add of the check has been made, and the failure leaves the set, the
\* entry of the check included, and the expiry of the key as they were, the
\* expiry not refreshed; either way the request is answered 500.
C34_EntryOnlyIfRefreshFailed ==
  [][\A p \in Procs :
       Resolves(p, "RedisError")
         => LET key == getKey(chk[p].clientId)
            IN /\ IsStoreError(resp')
               /\ chk[p].pc # "pexpire"
                    => /\ "zadd" \notin chk[p].calls
                       /\ NewEntry(p) \notin store'[key]
               /\ chk[p].pc = "pexpire"
                    => /\ "zadd" \in chk[p].calls
                       /\ store'[key] = store[key]
                       /\ ttl'[key] = ttl[key]]_vars

\* a request of the premium identifier was answered 500 after it had
\* consumed a slot: its check failed at the expiry refresh, its entry is in
\* the set beside that of the admitted request before it, and the expiry of
\* the key is the one that request set
C34_Witness ==
  /\ IsStoreError(resp)
  /\ \E c \in Clients :
       /\ Len(hist[c]) = 2
       /\ Admitted(hist[c][1])
       /\ Failed(hist[c][2])
       /\ Cardinality(store[getKey(c)]) = 2
       /\ \E e \in store[getKey(c)] :
            e.score = hist[c][2].now /\ e.score > hist[c][1].now
       /\ ttl[getKey(c)]
            = <<hist[c][1].done + rateLimitConfigs.premium.windowMs
                  + SafetyBufferMs>>

\* --------------------------------------------------------------------- C35
\* a retryAfter of at least one second and at most the window in seconds,
\* rounded up
WithinWindowSeconds(retryAfter) ==
  /\ retryAfter # << >>
  /\ 1 <= retryAfter[1]
  /\ retryAfter[1] <= MathCeil(windowMs, MsPerSecond)

\* C35: when the checks of an identifier do not overlap, every denial
\* carries a retryAfter, at least 1 and at most ceil(windowMs / 1000): it is
\* never omitted and never 0.
C35_RetryAfterInRange ==
  \A c \in Clients :
    ~Overlapped(c) =>
      \A i \in DOMAIN hist[c] :
        Denied(hist[c][i]) => WithinWindowSeconds(hist[c][i].retryAfter)

\* what holds of the range: the same, in executions in which every check of
\* the identifier resolves within the safety buffer of the key's expiry
C35_RetryAfterInRangeWhenTimely ==
  \A c \in Clients :
    (~Overlapped(c) /\ Timely(c)) =>
      \A i \in DOMAIN hist[c] :
        Denied(hist[c][i]) => WithinWindowSeconds(hist[c][i].retryAfter)

\* a denial of a check issued 500 ms after the admitted one, under a window
\* of 2000 ms, carries the largest retryAfter, 2
C35_RangeReached ==
  \E c \in Clients :
    /\ ~Overlapped(c) /\ Timely(c)
    /\ windowMs = 2000
    /\ \E i \in DOMAIN hist[c] :
         /\ Denied(hist[c][i])
         /\ hist[c][i].retryAfter = <<2>>
         /\ hist[c][i].now = hist[c][1].now + 500

\* --------------------------------------------------------------------- C36
\* the times of the calls of a history
Nows(h) == [i \in DOMAIN h |-> h[i].now]

\* the in-memory limiter of the same configuration after the first n calls
\* made for c
InMemory(c, n) == InMemoryAfter(config, c, Nows(hist[c]), n)

\* the outcome r of the store-backed check and the exit of the in-memory
\* check are the same decision, with the same retryAfter on a denial
SameDecision(r, exit) ==
  \/ Admitted(r) /\ exit.kind = "Success"
  \/ /\ Denied(r)
     /\ exit.kind = "Die"
     /\ exit.defect[1].tag = "RateLimitExceeded"
     /\ exit.defect[1].retryAfter = r.retryAfter

\* the list of timestamps is the list of the scores of the set, ascending
SameScores(requests, set) ==
  /\ Len(requests) = Cardinality(set)
  /\ \A i, j \in DOMAIN requests : i < j => requests[i] <= requests[j]
  /\ \A e \in set :
       Cardinality({ i \in DOMAIN requests : requests[i] = e.score })
         = Cardinality({ f \in set : f.score = e.score })

\* the last call, made for c, has just resolved
JustCalled(c) ==
  /\ Quiet
  /\ issued # << >> /\ issued[Len(issued)] = c
  /\ Len(hist[c]) > 0
  /\ clock = Last(hist[c]).done

\* every call made for c so far was decided alike by the two limiters
DecidedAlike(c) ==
  \A n \in DOMAIN hist[c] : SameDecision(hist[c][n], InMemory(c, n).exit)

\* C36 as stated: after each call of a sequence of calls made one at a
\* time, the two limiters have decided every call alike, and the in-memory
\* list of every identifier is the list of the scores of its set.
C36_AsStated ==
  (\E d \in Clients : JustCalled(d)) =>
    \A c \in Clients :
      /\ DecidedAlike(c)
      /\ SameScores(InMemory(c, Len(hist[c])).requests, store[getKey(c)])

\* C36: after each call of a sequence of calls made one at a time, the two
\* limiters have decided every call of every identifier alike, with the
\* same retryAfter on every denial, and the in-memory list of the
\* identifier of the call is the list of the scores of its set.
C36_SameDecisionsAndList ==
  \A c \in Clients :
    /\ Quiet => DecidedAlike(c)
    /\ JustCalled(c)
         => SameScores(InMemory(c, Len(hist[c])).requests, store[getKey(c)])

\* after two admissions and a denial at one time, a call made a window
\* later was admitted by both limiters: the list and the set hold its
\* timestamp alone
C36_Witness ==
  \E c \in Clients :
    /\ JustCalled(c)
    /\ Len(hist[c]) = 4
    /\ Admitted(hist[c][1]) /\ Admitted(hist[c][2])
    /\ Denied(hist[c][3]) /\ Admitted(hist[c][4])
    /\ hist[c][4].now = hist[c][1].now + windowMs
    /\ InMemory(c, 3).exit.kind = "Die"
    /\ InMemory(c, 4).requests = <<hist[c][4].now>>
    /\ Cardinality(store[getKey(c)]) = 1

\* --------------------------------------------------------------------- C37
\* this step starts a check for x
StartsCheckFor(x) == issued' # issued /\ issued'[Len(issued')] = x

\* C37: the override flag is read once, when the request is received. A
\* request bearing a token is bypassed in that step if the flag is true then,
\* and starts a check if it is not; a check is started for a token only in a
\* step in which the flag of the token is not true; and the response a
\* resolving check returns is that of its outcome (200 with the role, 429),
\* never the bypass outcome, whatever the flag is by then.
C37_OverrideReadOnce ==
  [][/\ \A x \in SeqClients : \A request \in Bearing(x) :
          Fetched(request)
            => IF overrides[x] = <<TRUE>>
               THEN /\ resp' # << >> /\ IsBypass(resp'[1])
                    /\ chk' = chk
               ELSE resp' = << >> /\ StartsCheckFor(x)
     /\ \A p \in Procs :
          /\ Resolves(p, "void")
               => /\ resp' # << >>
                  /\ resp'[1].status = 200 /\ ~IsBypass(resp'[1])
          /\ Resolves(p, "RateLimitExceeded")
               => resp' # << >> /\ resp'[1].status = 429]_vars

\* a request of a token was answered 429 although the override of the token
\* is true: it was received while the flag was not true, the admin request
\* set the flag while its check was in flight, and its check was denied on
\* the entry of the admitted request before it
C37_Witness ==
  \E x \in SeqClients :
    /\ overrides[x] = <<TRUE>>
    /\ resp # << >> /\ resp[1].status = 429
    /\ kinds = <<"token", "token">>
    /\ Len(hist[x]) = 2
    /\ Admitted(hist[x][1]) /\ Denied(hist[x][2])
    /\ answered = 3

\* --------------------------------------------------------------------- C38
\* this step changes the set or the expiry of the key of x other than by
\* the expiry of the key
Operated(x) ==
  /\ clock' = clock
  /\ \/ store'[getKey(x)] # store[getKey(x)]
     \/ ttl'[getKey(x)] # ttl[getKey(x)]

\* C38: every check works on the key of its identifier with the limits of
\* the one tier of that identifier: two checks in flight on one key have the
\* same windowMs and maxRequests, those of the identifier's tier, and a step
\* that changes the set or the expiry of a key is a store call of a check of
\* that key's identifier with the limits of its tier.
C38_OneTierPerKey ==
  /\ [](\A p, q \in Procs :
          InFlight(p)
            => /\ chk[p].config = rateLimiters[getUserRole(chk[p].clientId)]
               /\ (InFlight(q) /\ getKey(chk[q].clientId) = getKey(chk[p].clientId))
                    => chk[q].config = chk[p].config)
  /\ [][\A x \in Clients :
          Operated(x)
            => \E p \in InFlightFor(x) :
                 /\ chk'[p] # chk[p]
                 /\ chk[p].config = TierOf(x)]_vars

\* checks of both tiers are in flight, each past its purge, and two checks
\* of the free tier, one of a token and one of an address, have worked on
\* one key
C38_Witness ==
  /\ \E p, q \in Procs :
       /\ InFlight(p) /\ InFlight(q)
       /\ chk[p].config = rateLimiters.premium
       /\ chk[q].config = rateLimiters.free
       /\ chk[p].config # chk[q].config
       /\ "zremrangebyscore" \in chk[p].calls \cap chk[q].calls
       /\ getKey(chk[p].clientId) # getKey(chk[q].clientId)

\* --------------------------------------------------------------------- C39
\* the names a script of another origin may read from the response
Exposed(r) ==
  { name \in { "Retry-After", "X-Rate-Limit-Exceeded", "X-Rate-Limit-Remaining" } :
      \E h \in r.headers :
        h[1] = "Access-Control-Expose-Headers" /\ Includes(h[2], name) }

\* the rate-limit headers the response carries
Carried(r) ==
  { h[1] : h \in r.headers }
  \cap { "Retry-After", "X-Rate-Limit-Exceeded", "X-Rate-Limit-Remaining" }

\* C39: every rate-limit header a response carries (Retry-After,
\* X-Rate-Limit-Exceeded, X-Rate-Limit-Remaining) is listed in the
\* Access-Control-Expose-Headers header of that response.
C39_CarriedHeadersExposed ==
  resp # << >> => Carried(resp[1]) \subseteq Exposed(resp[1])

\* what holds: the headers of a denial, Retry-After and
\* X-Rate-Limit-Exceeded, are listed on every response, and
\* X-Rate-Limit-Remaining on none
C39_DenialHeadersExposed ==
  resp # << >>
    => Exposed(resp[1]) = { "Retry-After", "X-Rate-Limit-Exceeded" }

\* a denial carrying both of its headers has been returned
C39_DenialReached ==
  /\ resp # << >>
  /\ Carried(resp[1]) = { "Retry-After", "X-Rate-Limit-Exceeded" }

====
